---- MODULE Spec2Model ----
(***************************************************************************)
(* Tile-parallel image filtering pipeline (wasm-image-pipeline).           *)
(*                                                                         *)
(* Three programs are modelled:                                            *)
(*   - the zero-copy CLI (the Go program held in src/.github/workflows/    *)
(*     ci.yml, lines 94-331): a pool of VM slots, one worker goroutine per *)
(*     slot and image, a dispatcher goroutine, a collecting main;          *)
(*   - the bounded disk-staged CLI (src/apps/cli/main.go, lines 129-309);  *)
(*   - the first disk-staged CLI (src/apps/cli/main.go, lines 1-127): one  *)
(*     image, a tile size fixed in the code, no bound on concurrency;      *)
(*   - the tile splitter of both, as a loop over the grid.                 *)
(* The zero-copy program is also run on faulty inputs (SpecFaults): a      *)
(* guest binary that is missing, malformed, lacks an export or misbehaves,  *)
(* and a tile size or a worker count that is zero or negative.             *)
(* Further specifications: the zero-copy program under fair scheduling     *)
(* (SpecLive), the decoding of the output descriptor in runTile on its own *)
(* (SpecDescriptor), and split.Image of src/unnamed/part_002 (SpecImage).  *)
(***************************************************************************)
EXTENDS Integers, Sequences, FiniteSets, TLC

(***************************************************************************)
(* Bounds of the model.                                                    *)
(***************************************************************************)
SplitMaxW == 5
SplitMaxH == 4
SplitMaxT == 5
MemSize == 32
MaxLoad == 8
MaxWorkers == 3
MaxImages == 2
MaxWorkerGoroutines == 4
FaultMaxImages == 2
FaultMaxWorkers == 2

(***************************************************************************)
(* Integer helpers with Go's semantics.                                    *)
(***************************************************************************)
Abs(a) == IF a < 0 THEN -a ELSE a

\* Go's integer division truncates toward zero (b # 0).
GoDiv(a, b) ==
  LET q == Abs(a) \div Abs(b)
  IN  IF (a < 0) # (b < 0) THEN -q ELSE q

Min2(a, b) == IF a < b THEN a ELSE b

Max2(a, b) == IF a > b THEN a ELSE b

(***************************************************************************)
(* image.Rectangle of the Go standard library, as the programs use it.     *)
(***************************************************************************)
ZR == [x0 |-> 0, y0 |-> 0, x1 |-> 0, y1 |-> 0]

\* image.Rect: a well-formed rectangle, swapping coordinates if needed.
Rect(x0, y0, x1, y1) ==
  [x0 |-> Min2(x0, x1), y0 |-> Min2(y0, y1),
   x1 |-> Max2(x0, x1), y1 |-> Max2(y0, y1)]

RectEmpty(r) == r.x0 >= r.x1 \/ r.y0 >= r.y1

RectDx(r) == r.x1 - r.x0

RectDy(r) == r.y1 - r.y0

\* Rectangle.Intersect: the largest rectangle in both, ZR when they do not
\* overlap.
Intersect(r, s) ==
  LET t == [x0 |-> Max2(r.x0, s.x0), y0 |-> Max2(r.y0, s.y0),
            x1 |-> Min2(r.x1, s.x1), y1 |-> Min2(r.y1, s.y1)]
  IN  IF RectEmpty(t) THEN ZR ELSE t

\* src.Bounds() of a decoded PNG of width w and height h.
Bounds(w, h) == [x0 |-> 0, y0 |-> 0, x1 |-> w, y1 |-> h]

(***************************************************************************)
(* The tile grid.                                                          *)
(***************************************************************************)
GridColsFloor(w, t) == GoDiv(w, t)

GridColsExtra(w, t) == GoDiv(w, t) + 1

\* cols := (b.Dx() + tileSize - 1) / tileSize   (rows likewise, with Dy)
GridCols(w, t) == GoDiv(w + t - 1, t)

\* The rectangle the zero-copy dispatcher crops for tile (x, y):
\* image.Rect(x*T, y*T, x*T+T, y*T+T).Intersect(b)
TileRectZeroCopy(w, h, t, x, y) ==
  Intersect(Rect(x * t, y * t, x * t + t, y * t + t), Bounds(w, h))

\* The rectangle the disk-staged splitter crops for tile (x, y):
\* image.Rect(x0, y0, min(x0+T, W), min(y0+T, H))
TileRectDisk(w, h, t, x, y) ==
  Rect(x * t, y * t, Min2(x * t + t, w), Min2(y * t + t, h))

\* imaging.Crop clips the rectangle it is given to the image bounds.
CropRect(r, w, h) == Intersect(r, Bounds(w, h))

TileRect(variant, w, h, t, x, y) ==
  IF variant = "zerocopy"
    THEN CropRect(TileRectZeroCopy(w, h, t, x, y), w, h)
    ELSE CropRect(TileRectDisk(w, h, t, x, y), w, h)

(***************************************************************************)
(* Images.  An image is its width, its height and its pixels; a pixel is a *)
(* small number standing for a colour, 0 being the transparent background. *)
(***************************************************************************)
Pixels(w, h) == (0..(w - 1)) \X (0..(h - 1))

\* A nil image.Image.
NilImage == [w |-> -1, h |-> -1, pix |-> <<>>]

\* imaging.New(w, h, color.NRGBA{0, 0, 0, 0})
NewImage(w, h) == [w |-> w, h |-> h, pix |-> [p \in Pixels(w, h) |-> 0]]

\* imaging.Crop(img, rect): the part of img inside rect (clipped to the
\* bounds of img), as a new image whose origin is (0, 0).
Crop(img, rect) ==
  LET r == CropRect(rect, img.w, img.h)
  IN  [w |-> RectDx(r), h |-> RectDy(r),
       pix |-> [p \in Pixels(RectDx(r), RectDy(r)) |->
                  img.pix[<<p[1] + r.x0, p[2] + r.y0>>]]]

InterHas(r, p) == r.x0 <= p[1] /\ p[1] < r.x1 /\ r.y0 <= p[2] /\ p[2] < r.y1

\* imaging.Paste(bg, img, image.Pt(px, py)): bg with img drawn over it, the
\* top-left corner of img at (px, py), clipped to bg.
Paste(bg, img, px, py) ==
  LET pr    == [x0 |-> px, y0 |-> py, x1 |-> px + img.w, y1 |-> py + img.h]
      inter == Intersect(pr, Bounds(bg.w, bg.h))
  IN  IF RectEmpty(inter) THEN bg
      ELSE [bg EXCEPT !.pix = [p \in Pixels(bg.w, bg.h) |->
              IF InterHas(inter, p)
                THEN img.pix[<<p[1] - px, p[2] - py>>]
                ELSE bg.pix[p]]]

(***************************************************************************)
(* The PNG codec, as far as the programs depend on it: an image is encoded *)
(* as its two dimensions followed by its pixels in row-major order, and    *)
(* decoding fails on bytes that are no such encoding.                      *)
(***************************************************************************)
\* png.Encode: fails on an image without pixels.
PngEncode(img) ==
  IF img.w <= 0 \/ img.h <= 0
    THEN [err |-> TRUE, bytes |-> <<>>]
    ELSE [err |-> FALSE,
          bytes |-> <<img.w, img.h>> \o
                    [i \in 1..(img.w * img.h) |->
                       img.pix[<<(i - 1) % img.w, (i - 1) \div img.w>>]]]

\* png.Decode
PngDecode(bytes) ==
  IF Len(bytes) < 2 \/ bytes[1] <= 0 \/ bytes[2] <= 0
       \/ Len(bytes) # 2 + bytes[1] * bytes[2]
    THEN [err |-> TRUE, img |-> NilImage]
    ELSE [err |-> FALSE,
          img |-> [w |-> bytes[1], h |-> bytes[2],
                   pix |-> [p \in Pixels(bytes[1], bytes[2]) |->
                              bytes[2 + p[2] * bytes[1] + p[1] + 1]]]]

(***************************************************************************)
(* Guest linear memory and Go's fixed-width integers.                      *)
(***************************************************************************)
\* Integers of the model are 32-bit signed numbers, as Go's int32: the
\* conversions int32(len(...)) of runTile are the identity on them.

\* The unsigned byte b read as the top byte of an int32.
SignedTop(b) == IF b >= 128 THEN b - 256 ELSE b

\* The four bytes of v >= 0, least significant first.
U32Bytes(v) ==
  <<v % 256, (v \div 256) % 256, (v \div 65536) % 256, (v \div 16777216) % 256>>

\* int32(b[o]) | int32(b[o+1])<<8 | int32(b[o+2])<<16 | int32(b[o+3])<<24
\* (o is the 0-based index of the first byte in the Go slice).
HostLE32(b, o) ==
  b[o + 1] + b[o + 2] * 256 + b[o + 3] * 65536 + SignedTop(b[o + 4]) * 16777216

\* A fresh linear memory of n bytes.
ZeroMem(n) == [a \in 0..(n - 1) |-> 0]

MemLen(mem) == Cardinality(DOMAIN mem)

\* mem.GetData(uint(ptr), uint(n)) succeeds iff the range is inside memory;
\* a negative int32 converts to an offset of 2^31 or more, outside of it.
GetDataOk(mem, ptr, n) ==
  /\ ptr >= 0 /\ n >= 0
  /\ ptr <= MemLen(mem)
  /\ n <= MemLen(mem) - ptr

\* The n bytes of memory at ptr.
MemRead(mem, ptr, n) == [i \in 1..n |-> mem[ptr + i - 1]]

\* copy(data, bytes), data being the slice of memory at ptr.
MemWrite(mem, ptr, bytes) ==
  [a \in DOMAIN mem |->
     IF ptr <= a /\ a < ptr + Len(bytes) THEN bytes[a - ptr + 1] ELSE mem[a]]

(***************************************************************************)
(* The guest module: the contract of its three exports.                    *)
(* A region is <<pointer, length>>.                                        *)
(***************************************************************************)
SetMin(S) == CHOOSE m \in S : \A n \in S : m <= n

RegionsDisjoint(p, n, r) == p + n <= r[1] \/ r[1] + r[2] <= p

\* The address alloc(n) hands out: the lowest free range, 0 when none is left.
GuestAllocPtr(live, n, memSize) ==
  LET fit == {q \in 1..(memSize - n) : \A r \in live : RegionsDisjoint(q, n, r)}
  IN  IF n <= 0 \/ fit = {} THEN 0 ELSE SetMin(fit)

\* alloc(n) in mode "ok" (contract), "trap" (the call fails), "null" (returns
\* 0), "oob" (returns the address one past the end of memory).
GuestAlloc(live, n, memSize, mode) ==
  IF mode = "trap" THEN [trap |-> TRUE, ptr |-> 0, live |-> live]
  ELSE IF mode = "null" THEN [trap |-> FALSE, ptr |-> 0, live |-> live]
  ELSE IF mode = "oob" THEN [trap |-> FALSE, ptr |-> memSize, live |-> live]
  ELSE LET q == GuestAllocPtr(live, n, memSize)
       IN  [trap |-> FALSE, ptr |-> q,
            live |-> IF q = 0 THEN live ELSE live \cup {<<q, n>>}]

\* dealloc(ptr, n) in mode "ok" (releases the region) or "trap" (the call
\* fails and the region stays allocated).
GuestDealloc(live, ptr, n, mode) ==
  IF mode = "ok" THEN live \ {<<ptr, n>>} ELSE live

\* What the filter computes from a decoded tile.
GrayOf(v) == IF v = 0 THEN 0 ELSE 255 - v

ApplyFilter(filt, img) ==
  IF filt = "identity" THEN img
  ELSE [img EXCEPT !.pix = [p \in DOMAIN img.pix |-> GrayOf(img.pix[p])]]

\* The result of the filter entry point when it produces nothing: the call
\* fails (trap), or returns 0.
GuestFilterFail(trap, live, mem) ==
  [trap |-> trap, ret |-> 0, mem |-> mem, live |-> live, out |-> <<>>]

\* The filter writes its output at outPtr and the descriptor (address and
\* length, little-endian) at outParamsPtr.
GuestFilterWrite(live, mem, outParamsPtr, mode, out, outPtr) ==
  IF mode = "nodesc"
    THEN [trap |-> FALSE, ret |-> Len(out), mem |-> mem, live |-> live,
          out |-> <<>>]
  ELSE IF outPtr = 0 THEN GuestFilterFail(FALSE, live, mem)
  ELSE IF outParamsPtr < 0 \/ outParamsPtr + 8 > MemLen(mem)
    THEN GuestFilterFail(TRUE, live, mem)
  ELSE [trap |-> FALSE, ret |-> Len(out),
        mem |-> MemWrite(MemWrite(mem, outPtr, out), outParamsPtr,
                         U32Bytes(IF mode = "oobout" THEN MemLen(mem) ELSE outPtr)
                           \o U32Bytes(Len(out))),
        live |-> live \cup {<<outPtr, Len(out)>>},
        out |-> <<outPtr, Len(out)>>]

\* The filter allocates the region of its output.
GuestFilterPlace(live, mem, outParamsPtr, mode, out) ==
  GuestFilterWrite(live, mem, outParamsPtr, mode, out,
                   GuestAllocPtr(live, Len(out), MemLen(mem)))

\* The filter encodes the filtered tile.
GuestFilterEncode(live, mem, outParamsPtr, mode, good) ==
  GuestFilterPlace(live, mem, outParamsPtr, mode,
                   IF mode = "badpng" THEN <<good[1] + 1>> \o Tail(good) ELSE good)

\* The filter applied to the decoded input.
GuestFilterDecoded(filt, live, mem, outParamsPtr, mode, dec) ==
  IF dec.err THEN GuestFilterFail(FALSE, live, mem)
  ELSE GuestFilterEncode(live, mem, outParamsPtr, mode,
                         PngEncode(ApplyFilter(filt, dec.img)).bytes)

\* The filter entry point (inPtr, inLen, outParamsPtr) -> resultLen.
\* Modes: "ok" follows the contract; "trap" the call fails; "zero" returns 0;
\* "badpng" returns bytes that are no image; "oobout" writes a descriptor
\* that points past the end of memory; "nodesc" returns a length without
\* writing a descriptor.
GuestFilter(filt, live, mem, inPtr, inLen, outParamsPtr, mode) ==
  IF mode = "trap" THEN GuestFilterFail(TRUE, live, mem)
  ELSE IF mode = "zero" THEN GuestFilterFail(FALSE, live, mem)
  ELSE IF inPtr < 0 \/ inLen < 0 \/ inPtr + inLen > MemLen(mem)
    THEN GuestFilterFail(TRUE, live, mem)
  ELSE GuestFilterDecoded(filt, live, mem, outParamsPtr, mode,
                          PngDecode(MemRead(mem, inPtr, inLen)))

(***************************************************************************)
(* runTile: one invocation of the guest on a slot.                         *)
(*   mem  : the linear memory of the slot's instance when the call starts  *)
(*   live : the regions the guest holds allocated when the call starts     *)
(*   owed : the regions handed to the host and not yet passed to dealloc   *)
(*   g    : how the guest behaves in this invocation                       *)
(* The result carries the image, the error ("nil" for none), the slot's    *)
(* regions and memory after the call and the sequence of guest calls and   *)
(* accesses.                                                               *)
(* The steps of runTile follow, the last one first; each step receives the *)
(* values its predecessors computed.                                       *)
(***************************************************************************)
Ret(img, err, live, owed, mem, calls) ==
  [img |-> img, err |-> err, live |-> live, owed |-> owed, mem |-> mem,
   calls |-> calls]

Region(ptr, n) == IF ptr = 0 THEN {} ELSE {<<ptr, n>>}

RunTileDeallocInputOnly(g, live, owed, calls, mem, inPtr, inLen, outPtrParams, outPtr, outLen, img) ==
  Ret(img, "nil", GuestDealloc(live, inPtr, inLen, g.dealloc),
      owed \ {<<inPtr, inLen>>}, mem,
      calls \o <<<<"dealloc", inPtr, inLen>>>>)

RunTileDeallocReversed(g, live, owed, calls, mem, inPtr, inLen, outPtrParams, outPtr, outLen, img) ==
  Ret(img, "nil",
      GuestDealloc(GuestDealloc(GuestDealloc(live, outPtrParams, 8, g.dealloc),
                                outPtr, outLen, g.dealloc),
                   inPtr, inLen, g.dealloc),
      owed \ {<<inPtr, inLen>>, <<outPtr, outLen>>, <<outPtrParams, 8>>}, mem,
      calls \o <<<<"dealloc", outPtrParams, 8>>, <<"dealloc", outPtr, outLen>>,
                 <<"dealloc", inPtr, inLen>>>>)

\* The three dealloc calls, their results ignored, and return img, nil.
RunTileDealloc(g, live, owed, calls, mem, inPtr, inLen, outPtrParams, outPtr, outLen, img) ==
  Ret(img, "nil",
      GuestDealloc(GuestDealloc(GuestDealloc(live, inPtr, inLen, g.dealloc),
                                outPtr, outLen, g.dealloc),
                   outPtrParams, 8, g.dealloc),
      owed \ {<<inPtr, inLen>>, <<outPtr, outLen>>, <<outPtrParams, 8>>}, mem,
      calls \o <<<<"dealloc", inPtr, inLen>>, <<"dealloc", outPtr, outLen>>,
                 <<"dealloc", outPtrParams, 8>>>>)

\* img, err := png.Decode(outBytes)
RunTileDecode(g, live, owed, calls, mem, inPtr, inLen, outPtrParams, outPtr, outLen, dec) ==
  IF dec.err THEN Ret(NilImage, "decode", live, owed, mem, calls)
  ELSE RunTileDealloc(g, live, owed, calls, mem, inPtr, inLen, outPtrParams,
                      outPtr, outLen, dec.img)

RunTileReadOutputUnchecked(g, live, owed, calls, mem, inPtr, inLen, outPtrParams, outPtr, outLen) ==
  RunTileDecode(g, live, owed, calls \o <<<<"read", outPtr, outLen>>>>, mem,
                inPtr, inLen, outPtrParams, outPtr, outLen,
                PngDecode(IF GetDataOk(mem, outPtr, outLen)
                            THEN MemRead(mem, outPtr, outLen) ELSE <<>>))

\* outData, err := mem.GetData(outPtr, outLen), copied to outBytes.
RunTileReadOutput(g, live, owed, calls, mem, inPtr, inLen, outPtrParams, outPtr, outLen) ==
  IF ~GetDataOk(mem, outPtr, outLen)
    THEN Ret(NilImage, "mem output", live, owed, mem, calls)
  ELSE RunTileDecode(g, live, owed, calls \o <<<<"read", outPtr, outLen>>>>, mem,
                     inPtr, inLen, outPtrParams, outPtr, outLen,
                     PngDecode(MemRead(mem, outPtr, outLen)))

\* outPtr and outLen decoded from the eight bytes of the descriptor.
RunTileDescriptor(g, live, owed, calls, mem, inPtr, inLen, outPtrParams, paramBytes) ==
  RunTileReadOutput(g, live, owed, calls \o <<<<"read", outPtrParams, 8>>>>, mem,
                    inPtr, inLen, outPtrParams,
                    HostLE32(paramBytes, 0), HostLE32(paramBytes, 4))

\* The region of the output, which the guest allocated inside the filter.
FilterRegion(f) == IF f.out = <<>> THEN {} ELSE {f.out}

\* The filter call returned f: its error, resultLen == 0, and
\* paramBytes, err := mem.GetData(outPtrParams, 8).
RunTileFiltered(g, owed, calls, inPtr, inLen, outPtrParams, f) ==
  IF f.trap
    THEN Ret(NilImage, "grayscale", f.live, owed, f.mem,
             calls \o <<<<"grayscale", inPtr, inLen, outPtrParams, -1>>>>)
  ELSE IF f.ret = 0
    THEN Ret(NilImage, "zero length output", f.live, owed \cup FilterRegion(f),
             f.mem,
             calls \o <<<<"grayscale", inPtr, inLen, outPtrParams, 0>>>>)
  ELSE IF ~GetDataOk(f.mem, outPtrParams, 8)
    THEN Ret(NilImage, "mem params", f.live, owed \cup FilterRegion(f),
             f.mem,
             calls \o <<<<"grayscale", inPtr, inLen, outPtrParams, f.ret>>>>)
  ELSE RunTileDescriptor(g, f.live, owed \cup FilterRegion(f),
                         calls \o <<<<"grayscale", inPtr, inLen, outPtrParams,
                                     f.ret>>>>,
                         f.mem,
                         inPtr, inLen, outPtrParams,
                         MemRead(f.mem, outPtrParams, 8))

\* The second alloc returned a2: its error, then the filter call.
RunTileParams(filt, g, owed, calls, mem, inPtr, inLen, a2) ==
  IF a2.trap
    THEN Ret(NilImage, "alloc params", a2.live, owed, mem,
             calls \o <<<<"alloc", 8, -1>>>>)
  ELSE RunTileFiltered(g, owed \cup Region(a2.ptr, 8),
                       calls \o <<<<"alloc", 8, a2.ptr>>>>,
                       inPtr, inLen, a2.ptr,
                       GuestFilter(filt, a2.live, mem, inPtr, inLen, a2.ptr,
                                   g.filter))

\* The first alloc returned a1: its error, mem.GetData(inPtr, inLen), the
\* copy of the input and the second alloc.  mem is the memory of the slot's
\* instance, as the earlier invocations on the slot left it.
RunTileInput(filt, mem, g, owed, inBytes, a1) ==
  IF a1.trap
    THEN Ret(NilImage, "alloc input", a1.live, owed, mem,
             <<<<"alloc", Len(inBytes), -1>>>>)
  ELSE IF ~GetDataOk(mem, a1.ptr, Len(inBytes))
    THEN Ret(NilImage, "mem input", a1.live,
             owed \cup Region(a1.ptr, Len(inBytes)), mem,
             <<<<"alloc", Len(inBytes), a1.ptr>>>>)
  ELSE RunTileParams(filt, g, owed \cup Region(a1.ptr, Len(inBytes)),
                     <<<<"alloc", Len(inBytes), a1.ptr>>,
                       <<"write", a1.ptr, Len(inBytes)>>>>,
                     MemWrite(mem, a1.ptr, inBytes),
                     a1.ptr, Len(inBytes),
                     GuestAlloc(a1.live, 8, MemLen(mem), g.alloc2))

\* png.Encode returned enc: its error, then the first alloc.
RunTileEncoded(filt, mem, live, owed, g, enc) ==
  IF enc.err THEN Ret(NilImage, "encode", live, owed, mem, <<>>)
  ELSE RunTileInput(filt, mem, g, owed, enc.bytes,
                    GuestAlloc(live, Len(enc.bytes), MemLen(mem), g.alloc1))

\* runTile(vm, tile): mem := mod.FindMemory("memory") is the memory of the
\* instance the slot holds, which no invocation resets.
RunTile(filt, mem, live, owed, tile, g) ==
  RunTileEncoded(filt, mem, live, owed, g, PngEncode(tile))

VARIABLES
  svariant,   \* splitter: which program's splitter runs
  sW,         \* splitter: image width
  sH,         \* splitter: image height
  sT,         \* splitter: tile size
  sx,         \* splitter: loop variable x
  sy,         \* splitter: loop variable y
  srects,     \* splitter: the tiles emitted so far, in order
  spc,        \* splitter: "idle" | "open" | "split" | "done" | "error"
  serr,       \* splitter: "none", or the call whose error Image returned
  prog,       \* which program runs: "zerocopy" | "disk" | "split"
  nImages,    \* len(inputs): the number of PNG files found
  W,          \* width of the input images
  H,          \* height of the input images
  T,          \* tileSize
  N,          \* maxWorkers
  filt,       \* the filter the guest module computes
  wasm,       \* the guest binary at wasmFilter: what kind of module it is
  mpc,        \* where main is
  img,        \* index (1..nImages) of the image being processed
  fatal,      \* what log.Fatal reported, when the process was ended by it
  final,      \* the image being stitched
  saved,      \* the final images written so far, in order
  vm,         \* the pool: slot i |-> its state, its guest's regions and memory
  released,   \* the slots released so far, in order
  wk,         \* <<image, i>> |-> worker goroutine i of that image
  disp,       \* image |-> its dispatcher goroutine
  cnt,        \* the collect loop's counter i
  res,        \* the result main received last
  tiles,      \* the grid tiles[y][x] of the image being processed
  taken,      \* history: <<image, y, x>> |-> how often a worker received that task
  published,  \* history: <<image, y, x>> |-> how many results main received for it
  failedImgs, \* history: the images one of whose invocations returned an error
  failures,   \* history: <<k, x, y, err>> for every invocation, of tile (x, y)
              \*          of image k, that returned the error err
  reordered,  \* history: the images a result of which arrived before the
              \*          result of an earlier tile of the grid
  tileFiles,  \* disk-staged: <<x, y>> |-> the bytes of the tile file part_x_y.png
  outFiles,   \* disk-staged: <<x, y>> |-> the bytes of the processed tile file
  gor,        \* disk-staged: <<x, y>> |-> where the goroutine of that tile is
  sem,        \* disk-staged: the number of tokens in the channel sem
  wg,         \* disk-staged: the counter of the WaitGroup
  dbytes,     \* descriptor: the eight bytes paramBytes read from guest memory
  dpc,        \* descriptor: "idle" | "read" | "decoded"
  doff,       \* descriptor: uint(outPtr), the offset passed to GetData
  dlen        \* descriptor: uint(outLen), the length passed to GetData

splitVars == <<svariant, sW, sH, sT, sx, sy, srects, spc, serr>>

cfgVars == <<prog, nImages, W, H, T, N, filt, wasm>>

zcVars == <<mpc, img, fatal, final, saved, vm, released, wk, disp, cnt, res, tiles>>

histVars == <<taken, published, failedImgs, failures, reordered>>

diskVars == <<tileFiles, outFiles, gor, sem, wg>>

descVars == <<dbytes, dpc, doff, dlen>>

\* The variables of the zero-copy program alone.
zcOnlyVars == <<vm, released, wk, disp, cnt, res, tiles, histVars>>

vars == <<splitVars, cfgVars, zcVars, histVars, diskVars, descVars>>

(***************************************************************************)
(* Values of the records the goroutines exchange.                          *)
(***************************************************************************)
NoTask == [x |-> -1, y |-> -1, tile |-> NilImage]

NoResult == [x |-> -1, y |-> -1, img |-> NilImage, err |-> "nil"]

NoFatal == [kind |-> "none", x |-> -1, y |-> -1, err |-> "nil"]

\* No invocation on a slot yet.
NoCall == [live0 |-> {}, live1 |-> {}, err |-> "none", calls |-> <<>>]

\* The variables of the disk-staged program while another program runs.
DiskIdle ==
  /\ tileFiles = <<>>
  /\ outFiles = <<>>
  /\ gor = <<>>
  /\ sem = 0
  /\ wg = 0

\* The variables of the descriptor decoding while another program runs.
DescIdle ==
  /\ dbytes = <<>>
  /\ dpc = "idle"
  /\ doff = <<>>
  /\ dlen = <<>>

\* The variables of the splitter while a pipeline runs.
SplitIdle ==
  /\ svariant = "none"
  /\ sW = 0 /\ sH = 0 /\ sT = 0 /\ sx = 0 /\ sy = 0
  /\ srects = <<>>
  /\ spc = "idle"
  /\ serr = "none"

\* The variables of the pipelines while the splitter alone runs.
PipelineIdle ==
  /\ prog = "split"
  /\ nImages = 0 /\ W = 0 /\ H = 0 /\ T = 0 /\ N = 0
  /\ filt = "identity"
  /\ wasm = "none"
  /\ mpc = "idle"
  /\ img = 0
  /\ fatal = NoFatal
  /\ final = NilImage
  /\ saved = <<>>
  /\ vm = <<>>
  /\ released = <<>>
  /\ wk = <<>>
  /\ disp = <<>>
  /\ cnt = 0
  /\ res = NoResult
  /\ tiles = <<>>
  /\ taken = <<>>
  /\ published = <<>>
  /\ failedImgs = {}
  /\ failures = {}
  /\ reordered = {}
  /\ DiskIdle

(***************************************************************************)
(* The splitter: the nested loop over the grid, one tile per step.         *)
(***************************************************************************)
SplitExamples == {<<768, 512, 300>>, <<768, 512, 256>>}

SplitInputs ==
  ((1..SplitMaxW) \X (1..SplitMaxH) \X (1..SplitMaxT)) \cup SplitExamples

SplitInit ==
  /\ svariant \in {"zerocopy", "disk"}
  /\ \E in \in SplitInputs : sW = in[1] /\ sH = in[2] /\ sT = in[3]
  /\ sx = 0
  /\ sy = 0
  /\ srects = <<>>
  /\ spc = "split"
  /\ serr = "none"
  /\ PipelineIdle
  /\ DescIdle

\* One iteration of the inner loop: crop tile (x, y), then x++ (and y++ with
\* x reset when the row is finished).
SplitTile ==
  /\ spc = "split"
  /\ sy < GridCols(sH, sT)
  /\ sx < GridCols(sW, sT)
  /\ srects' = Append(srects,
                 [x |-> sx, y |-> sy,
                  rect |-> TileRect(svariant, sW, sH, sT, sx, sy)])
  /\ IF sx + 1 < GridCols(sW, sT)
       THEN sx' = sx + 1 /\ sy' = sy
       ELSE sx' = 0 /\ sy' = sy + 1
  /\ UNCHANGED <<svariant, sW, sH, sT, spc, serr, cfgVars, zcVars, histVars, diskVars, descVars>>

\* The outer loop ends.
SplitDone ==
  /\ spc = "split"
  /\ ~(sy < GridCols(sH, sT) /\ sx < GridCols(sW, sT))
  /\ spc' = "done"
  /\ UNCHANGED <<svariant, sW, sH, sT, sx, sy, srects, serr, cfgVars, zcVars, histVars, diskVars, descVars>>

SplitNext == SplitTile \/ SplitDone

SpecSplit == SplitInit /\ [][SplitNext]_vars

(***************************************************************************)
(* split.Image(inPath, outDir, n): the image cut into n x n tile files.    *)
(* sT holds n; a tile of srects carries its number, the tileID of its file *)
(* name tile_<id>.png.                                                     *)
(***************************************************************************)
\* tw, th := w/n, h/n
ImageTileWidth(w, n) == GoDiv(w, n)

\* image.Rect(x*tw, y*th, (x+1)*tw, (y+1)*th).Intersect(bounds)
ImageTileRect(w, h, n, x, y) ==
  Intersect(Rect(x * ImageTileWidth(w, n), y * ImageTileWidth(h, n),
                 (x + 1) * ImageTileWidth(w, n), (y + 1) * ImageTileWidth(h, n)),
            Bounds(w, h))

\* Image(inPath, outDir, n) is called on an image of sW x sH pixels.
ImageInit ==
  /\ svariant = "image"
  /\ sW \in 1..SplitMaxW
  /\ sH \in 1..SplitMaxH
  /\ sT \in 1..SplitMaxT
  /\ sx = 0
  /\ sy = 0
  /\ srects = <<>>
  /\ spc = "open"
  /\ serr = "none"
  /\ PipelineIdle
  /\ DescIdle

\* How Image ends before its loops: "ok", or the call whose error it
\* returns.
ImageOpenOutcomes == {"ok", "Open", "Decode", "MkdirAll"}

\* Image, up to the loops: os.Open, image.Decode, os.MkdirAll; on an error
\* of one of them Image returns nil and the error.
ImageOpen ==
  /\ svariant = "image" /\ spc = "open"
  /\ \E outcome \in ImageOpenOutcomes :
       /\ spc' = IF outcome = "ok" THEN "split" ELSE "error"
       /\ serr' = IF outcome = "ok" THEN "none" ELSE outcome
  /\ UNCHANGED <<svariant, sW, sH, sT, sx, sy, srects, cfgVars, zcVars, histVars, diskVars, descVars>>

\* What the file system does in an iteration: "ok", os.Create fails
\* ("Create"), or a write of png.Encode to the created file fails ("Encode").
ImageTileOutcomes == {"ok", "Create", "Encode"}

\* The error of an iteration, in the order of the code: os.Create fails
\* ("Create"); else png.Encode refuses a sub-image without pixels before it
\* writes anything ("size"); else a write of png.Encode fails ("Encode");
\* "none" when the tile is written.
ImageTileError(outcome, rect) ==
  IF outcome = "Create" THEN "Create"
  ELSE IF RectEmpty(rect) THEN "size"
  ELSE IF outcome = "Encode" THEN "Encode"
  ELSE "none"

\* One iteration of the inner loop: the sub-image of tile (x, y) is encoded
\* to tile_<tileID>.png.  png.Encode fails on an image without pixels; on
\* this or any other error of os.Create or png.Encode, Image returns nil and
\* the error.
ImageTile ==
  /\ svariant = "image" /\ spc = "split"
  /\ sy < sT
  /\ \E outcome \in ImageTileOutcomes :
     IF ImageTileError(outcome, ImageTileRect(sW, sH, sT, sx, sy)) # "none"
       THEN /\ spc' = "error"
            /\ serr' = ImageTileError(outcome, ImageTileRect(sW, sH, sT, sx, sy))
            /\ srects' = <<>>
            /\ UNCHANGED <<sx, sy>>
       ELSE /\ srects' = Append(srects,
                           [x |-> sx, y |-> sy, id |-> Len(srects),
                            rect |-> ImageTileRect(sW, sH, sT, sx, sy)])
            /\ IF sx + 1 < sT
                 THEN sx' = sx + 1 /\ sy' = sy
                 ELSE sx' = 0 /\ sy' = sy + 1
            /\ UNCHANGED <<spc, serr>>
  /\ UNCHANGED <<svariant, sW, sH, sT, cfgVars, zcVars, histVars, diskVars, descVars>>

\* The outer loop ends: return tiles, nil.
ImageDone ==
  /\ svariant = "image" /\ spc = "split"
  /\ ~(sy < sT)
  /\ spc' = "done"
  /\ UNCHANGED <<svariant, sW, sH, sT, sx, sy, srects, serr, cfgVars, zcVars, histVars, diskVars, descVars>>

ImageNext == ImageOpen \/ ImageTile \/ ImageDone

SpecImage == ImageInit /\ [][ImageNext]_vars

(***************************************************************************)
(* The pipelines: configuration and inputs.                                *)
(***************************************************************************)
\* The images and tile sizes explored, <<W, H, T>>: an image smaller than
\* the tile, a row of tiles with a clipped last column, a column of tiles
\* with a clipped last row, grids of 2x2 tiles without and with clipping,
\* and a row of three tiles.
Shapes ==
  {<<1, 1, 2>>, <<3, 2, 2>>, <<2, 3, 2>>, <<2, 2, 1>>, <<3, 3, 2>>, <<3, 1, 1>>}

\* The runs explored: the number of images, their shape and the number of
\* workers, with at most MaxLoad pairs of a worker and a tile in the run and
\* at most MaxWorkerGoroutines worker goroutines launched in it.
Configs ==
  {c \in (0..MaxImages) \X Shapes \X (1..MaxWorkers) :
     /\ c[1] * GridCols(c[2][1], c[2][3]) * GridCols(c[2][2], c[2][3]) * c[3] <= MaxLoad
     /\ c[1] * c[3] <= MaxWorkerGoroutines}

Filters == {"identity", "gray"}

\* imaging.Open(file): image k of the input directory, every pixel of a
\* colour of its own.
SrcImage(k, w, h) ==
  [w |-> w, h |-> h,
   pix |-> [p \in Pixels(w, h) |-> (k - 1) * w * h + p[2] * w + p[1] + 1]]

Guest(a1, a2, f, d) == [alloc1 |-> a1, alloc2 |-> a2, filter |-> f, dealloc |-> d]

\* How the guest may behave in one invocation: by its contract, or with one
\* of the faults that make runTile fail at one of its steps.
PipelineGuests ==
  { Guest("ok", "ok", "ok", "ok"),
    Guest("ok", "ok", "zero", "ok"),
    Guest("ok", "ok", "badpng", "ok"),
    Guest("ok", "ok", "oobout", "ok") }

\* Every behaviour of the guest in one invocation.
AllGuests ==
  {Guest(a1, a2, f, d) :
     a1 \in {"ok", "trap", "null", "oob"}, a2 \in {"ok", "trap", "null", "oob"},
     f \in {"ok", "trap", "zero", "badpng", "oobout", "nodesc"},
     d \in {"ok", "trap"}}

\* The guest binaries: "filter" exports alloc, dealloc and the filter and
\* may fail in an invocation; "sound" is the same module on inputs for which
\* no invocation fails; "any" may misbehave in every call; "missing"
\* and "malformed" cannot be loaded or validated; "noalloc", "nodealloc" and
\* "nofilter" are valid modules that lack one export, so that vm.Execute of
\* that name fails.
WasmKinds ==
  {"filter", "sound", "any", "missing", "malformed", "noalloc", "nodealloc",
   "nofilter"}

\* How the guest of a binary may behave in one invocation.
GuestsOf(binary) ==
  CASE binary = "filter"    -> PipelineGuests
    [] binary = "sound"     -> {Guest("ok", "ok", "ok", "ok")}
    [] binary = "any"       -> AllGuests
    [] binary = "noalloc"   -> {Guest("trap", "trap", "ok", "ok")}
    [] binary = "nodealloc" -> {Guest("ok", "ok", "ok", "trap")}
    [] binary = "nofilter"  -> {Guest("ok", "ok", "trap", "ok")}
    [] OTHER                -> {}

Rows == GridCols(H, T)

Cols == GridCols(W, T)

Slots == 0..(N - 1)

Grid == (0..(Rows - 1)) \X (0..(Cols - 1))

\* The process runs until main returns, log.Fatal ends it or it panics.
\* The process has not ended: main runs, or unwinds from a panic (its
\* deferred function runs while the other goroutines go on).
Running == mpc \notin {"idle", "done", "fatal", "exit2"}

(***************************************************************************)
(* The zero-copy program: main.                                            *)
(***************************************************************************)
ZcInitWith(runs) ==
  /\ SplitIdle
  /\ DescIdle
  /\ prog = "zerocopy"
  /\ \E c \in runs :
       /\ wasm = c[4]
       /\ nImages = c[1]
       /\ W = c[2][1] /\ H = c[2][2] /\ T = c[2][3]
       /\ N = c[3]
  /\ filt \in Filters
  /\ mpc = "start"
  /\ img = 0
  /\ fatal = NoFatal
  /\ final = NilImage
  /\ saved = <<>>
  /\ vm = [i \in Slots |->
             [st |-> "none", live |-> {}, owed |-> {}, mem |-> <<>>,
              last |-> NoCall, dfail |-> 0]]
  /\ released = <<>>
  /\ wk = [w \in (1..nImages) \X Slots |->
             [pc |-> "none", task |-> NoTask, res |-> NoResult]]
  /\ disp = [k \in 1..nImages |-> [pc |-> "none", x |-> 0, y |-> 0]]
  /\ cnt = 0
  /\ res = NoResult
  /\ tiles = <<>>
  /\ taken = <<>>
  /\ published = <<>>
  /\ failedImgs = {}
  /\ failures = {}
  /\ reordered = {}
  /\ DiskIdle

\* The runs of the zero-copy program on a guest binary that follows its
\* contract or fails in an invocation.
ZcInit == ZcInitWith({<<c[1], c[2], c[3], "filter">> : c \in Configs})

\* How the preparation of a run ends: "ok", or the step for which checkErr
\* ends the process.
ZcStartOutcomes == {"ok", "RemoveAll", "MkdirAll", "Walk"}

\* main, up to the creation of the pool: the output directory removed and
\* made, the input directory walked (checkErr on each); no input, nothing to
\* do.  make([]*wasmedge.VM, maxWorkers) panics on a negative length, before
\* the release of the pool is deferred.
ZcStart ==
  /\ prog = "zerocopy" /\ mpc = "start"
  /\ \E outcome \in ZcStartOutcomes :
       IF outcome # "ok"
         THEN /\ mpc' = "fatal"
              /\ fatal' = [NoFatal EXCEPT !.kind = "err", !.err = outcome]
         ELSE /\ mpc' = IF nImages = 0 THEN "done"
                        ELSE IF N < 0 THEN "exit2"
                        ELSE "pool"
              /\ UNCHANGED fatal
  /\ UNCHANGED <<histVars, splitVars, descVars, cfgVars, diskVars, img, final, saved, vm, released,
                 wk, disp, cnt, res, tiles>>

Created == Cardinality({i \in Slots : vm[i].st # "none"})

\* How newVM ends for a binary: the step that fails, or "ok".  A file that
\* is missing cannot be loaded, a malformed one fails to load or to
\* validate; a valid module is instantiated, whatever it exports, unless
\* the instantiation itself fails.
NewVMOutcomes(binary) ==
  CASE binary = "missing"   -> {"load"}
    [] binary = "malformed" -> {"load", "validate"}
    [] OTHER                -> {"ok", "instantiate"}

\* vms[i] = newVM(wasmFilter): load, validate, instantiate; checkErr ends
\* the process when one of them fails.
NewVM ==
  /\ prog = "zerocopy" /\ mpc = "pool"
  /\ Created < N
  /\ \E outcome \in NewVMOutcomes(wasm) :
       IF outcome = "ok"
         THEN /\ vm' = [vm EXCEPT ![Created].st = "ready",
                                  ![Created].mem = ZeroMem(MemSize)]
              /\ UNCHANGED <<mpc, fatal>>
         ELSE /\ mpc' = "fatal"
              /\ fatal' = [NoFatal EXCEPT !.kind = "err", !.err = outcome]
              /\ UNCHANGED vm
  /\ UNCHANGED <<histVars, splitVars, descVars, cfgVars, diskVars, img, final, saved, released, wk, disp,
                 cnt, res, tiles>>

\* The pool is complete: main goes on to the first image.
PoolReady ==
  /\ prog = "zerocopy" /\ mpc = "pool"
  /\ ~(Created < N)
  /\ mpc' = "open"
  /\ img' = 1
  /\ UNCHANGED <<histVars, splitVars, descVars, cfgVars, diskVars, fatal, final, saved, vm, released, wk,
                 disp, cnt, res, tiles>>

\* cols := (b.Dx() + tileSize - 1) / tileSize panics: integer divide by
\* zero, before a goroutine is launched.
DividePanics == T = 0

\* make([][]image.Image, rows) or make([]image.Image, cols) panics: a
\* negative length (rows < 0, or cols < 0 with a row to make), after the
\* workers and the dispatcher were launched.  No task exists then: the
\* dispatcher's loops have no iteration.
MakePanics == T < 0 /\ (Rows < 0 \/ (Rows > 0 /\ Cols < 0))

\* processImage, up to the collect loop: open the image, compute the grid,
\* make the channels, launch one worker per slot and the dispatcher, make
\* the grid.
OpenImage ==
  /\ prog = "zerocopy" /\ mpc = "open"
  /\ \E ok \in BOOLEAN :
       IF ok /\ DividePanics
         THEN /\ mpc' = "panic"
              /\ UNCHANGED <<fatal, wk, disp, tiles, cnt>>
       ELSE IF ok
         THEN /\ wk' = [w \in DOMAIN wk |->
                          IF w[1] = img
                            THEN [pc |-> "recv", task |-> NoTask, res |-> NoResult]
                            ELSE wk[w]]
              /\ disp' = [disp EXCEPT ![img] = [pc |-> "loop", x |-> 0, y |-> 0]]
              /\ IF MakePanics
                   THEN mpc' = "panic" /\ UNCHANGED <<tiles, cnt>>
                   ELSE /\ tiles' = [c \in Grid |-> NilImage]
                        /\ cnt' = 0
                        /\ mpc' = "collect"
              /\ UNCHANGED fatal
         ELSE /\ mpc' = "fatal"
              /\ fatal' = [NoFatal EXCEPT !.kind = "err", !.err = "open"]
              /\ UNCHANGED <<wk, disp, tiles, cnt>>
  /\ final' = NilImage
  /\ UNCHANGED <<histVars, splitVars, descVars, cfgVars, diskVars, img, saved, vm, released, res>>

(***************************************************************************)
(* The zero-copy program: dispatcher and workers of image k.               *)
(***************************************************************************)
\* The count kept for key c, raised by one.
Bump(f, c) ==
  IF c \in DOMAIN f THEN [f EXCEPT ![c] = f[c] + 1]
  ELSE [d \in DOMAIN f \cup {c} |-> IF d = c THEN 1 ELSE f[d]]

DispHasTask(d) == d.y < Rows /\ d.x < Cols

DispAdvanceSameRow(d) ==
  IF d.x + 1 < Cols THEN [d EXCEPT !.x = d.x + 1]
                    ELSE [d EXCEPT !.x = 0, !.y = IF Rows > 1 THEN d.y ELSE d.y + 1]

DispAdvance(d) ==
  IF d.x + 1 < Cols THEN [d EXCEPT !.x = d.x + 1]
                    ELSE [d EXCEPT !.x = 0, !.y = d.y + 1]

SlotOfFirst(i) == 0

\* Worker i of every image runs on vms[i].
SlotOf(i) == i

\* tasks <- task{x, y, t} meets "t := range tasks" of worker i: the channel
\* is unbuffered, the two goroutines move together.  The worker calls
\* runTile at once.
DispatchSend(k, i) ==
  /\ prog = "zerocopy" /\ Running
  /\ disp[k].pc = "loop"
  /\ DispHasTask(disp[k])
  /\ wk[<<k, i>>].pc = "recv"
  /\ wk' = [wk EXCEPT ![<<k, i>>] =
              [pc |-> "run",
               task |-> [x |-> disp[k].x, y |-> disp[k].y,
                         tile |-> Crop(SrcImage(k, W, H),
                                       TileRectZeroCopy(W, H, T, disp[k].x, disp[k].y))],
               res |-> NoResult]]
  /\ disp' = [disp EXCEPT ![k] = DispAdvance(disp[k])]
  /\ taken' = Bump(taken, <<k, disp[k].y, disp[k].x>>)
  /\ UNCHANGED <<published, failedImgs, failures, reordered, splitVars, descVars, cfgVars, diskVars, mpc, img, fatal, final, saved, vm,
                 released, cnt, res, tiles>>

\* close(tasks), after the last task was taken.
DispatchClose(k) ==
  /\ prog = "zerocopy" /\ Running
  /\ disp[k].pc = "loop"
  /\ ~DispHasTask(disp[k])
  /\ disp' = [disp EXCEPT ![k].pc = "done"]
  /\ UNCHANGED <<histVars, splitVars, descVars, cfgVars, diskVars, mpc, img, fatal, final, saved, vm,
                 released, wk, cnt, res, tiles>>

\* "range tasks" ends on the closed channel: the worker returns.
WorkerExit(k, i) ==
  /\ prog = "zerocopy" /\ Running
  /\ wk[<<k, i>>].pc = "recv"
  /\ disp[k].pc = "done"
  /\ wk' = [wk EXCEPT ![<<k, i>>].pc = "exit"]
  /\ UNCHANGED <<histVars, splitVars, descVars, cfgVars, diskVars, mpc, img, fatal, final, saved, vm,
                 released, disp, cnt, res, tiles>>

\* 1 when the dealloc calls of the invocation were made and failed, else 0:
\* runTile calls dealloc only on its way to "return img, nil".
DeallocFailed(g, r) == IF r.err = "nil" /\ g.dealloc = "trap" THEN 1 ELSE 0

\* runTile(vm, t.tile) returns: the worker holds result{t.x, t.y, img, err}.
RunTileEnd(k, i) ==
  /\ prog = "zerocopy" /\ Running
  /\ wk[<<k, i>>].pc = "run"
  /\ \E g \in GuestsOf(wasm) :
     \E r \in {RunTile(filt, vm[SlotOf(i)].mem, vm[SlotOf(i)].live,
                       vm[SlotOf(i)].owed, wk[<<k, i>>].task.tile, g)} :
       LET s == SlotOf(i)
           t == wk[<<k, i>>].task
       IN  /\ wk' = [wk EXCEPT ![<<k, i>>] =
                       [pc |-> "send", task |-> NoTask,
                        res |-> [x |-> t.x, y |-> t.y, img |-> r.img, err |-> r.err]]]
           /\ vm' = [vm EXCEPT ![s].live = r.live, ![s].owed = r.owed,
                               ![s].mem = r.mem,
                               ![s].dfail = vm[s].dfail + DeallocFailed(g, r),
                               ![s].last = [live0 |-> vm[s].live,
                                            live1 |-> r.live, err |-> r.err,
                                            calls |-> r.calls]]
           /\ failedImgs' = IF r.err # "nil" THEN failedImgs \cup {k} ELSE failedImgs
           /\ failures' = IF r.err # "nil"
                            THEN failures \cup {<<k, t.x, t.y, r.err>>}
                            ELSE failures
  /\ UNCHANGED <<taken, published, reordered, splitVars, descVars, cfgVars, diskVars, mpc, img, fatal, final, saved, released,
                 disp, cnt, res, tiles>>

(***************************************************************************)
(* The zero-copy program: collect, stitch, save, release.                  *)
(***************************************************************************)
CollectBoundShort == Rows * Cols - 1

\* The number of results the collect loop waits for.
CollectBound == Rows * Cols

\* res := <-results meets "results <- result{...}" of worker i.
CollectRecv(i) ==
  /\ prog = "zerocopy" /\ mpc = "collect"
  /\ cnt < CollectBound
  /\ wk[<<img, i>>].pc = "send"
  /\ res' = wk[<<img, i>>].res
  /\ wk' = [wk EXCEPT ![<<img, i>>] =
              [pc |-> "recv", task |-> NoTask, res |-> NoResult]]
  /\ mpc' = "check"
  /\ published' = Bump(published, <<img, wk[<<img, i>>].res.y, wk[<<img, i>>].res.x>>)
  /\ UNCHANGED <<taken, failedImgs, failures, reordered, splitVars, descVars, cfgVars, diskVars, img, fatal, final, saved, vm, released,
                 disp, cnt, tiles>>

\* A tile before (r.x, r.y) in row-major order has no result yet.
EarlierMissing(r) ==
  \E c \in Grid :
    /\ c[1] * Cols + c[2] < r.y * Cols + r.x
    /\ tiles[c] = NilImage

IsFailureNever(r) == FALSE

\* res.err != nil
IsFailure(r) == r.err # "nil"

TileKeyByArrival(r, n) == <<n \div Cols, n % Cols>>

\* The grid cell a result is stored in: tiles[res.y][res.x].
TileKey(r, n) == <<r.y, r.x>>

TileFatalSwapped(r) == [kind |-> "tile", x |-> r.y, y |-> r.x, err |-> r.err]

\* log.Fatalf("tile %d,%d error: %v", res.x, res.y, res.err)
TileFatal(r) == [kind |-> "tile", x |-> r.x, y |-> r.y, err |-> r.err]

\* The body of the collect loop after the receive: log.Fatalf on a failed
\* result, else tiles[res.y][res.x] = res.img.
CollectCheck ==
  /\ prog = "zerocopy" /\ mpc = "check"
  /\ IF IsFailure(res)
       THEN /\ mpc' = "fatal"
            /\ fatal' = TileFatal(res)
            /\ UNCHANGED <<tiles, cnt, reordered>>
       ELSE IF TileKey(res, cnt) \notin DOMAIN tiles
         THEN mpc' = "panic" /\ UNCHANGED <<tiles, cnt, fatal, reordered>>
         ELSE /\ tiles' = [tiles EXCEPT ![TileKey(res, cnt)] = res.img]
              /\ cnt' = cnt + 1
              /\ mpc' = "collect"
              /\ reordered' = IF EarlierMissing(res) THEN reordered \cup {img}
                                                      ELSE reordered
              /\ UNCHANGED fatal
  /\ UNCHANGED <<taken, published, failedImgs, failures, splitVars, descVars, cfgVars, diskVars, img, final, saved, vm, released, wk,
                 disp, res>>

\* The collect loop ends.
CollectDone ==
  /\ prog = "zerocopy" /\ mpc = "collect"
  /\ ~(cnt < CollectBound)
  /\ mpc' = "stitch"
  /\ UNCHANGED <<histVars, splitVars, descVars, cfgVars, diskVars, img, fatal, final, saved, vm, released,
                 wk, disp, cnt, res, tiles>>

PasteOriginSwapped(x, y, t) == <<y * t, x * t>>

\* Where tile (x, y) is pasted: image.Pt(x*tileSize, y*tileSize).
PasteOrigin(x, y, t) == <<x * t, y * t>>

\* The stitch loop over the first n cells of the grid, in row-major order.
RECURSIVE StitchLoop(_, _, _)
StitchLoop(bg, g, n) ==
  IF n = 0 THEN bg
  ELSE LET x == (n - 1) % Cols
           y == (n - 1) \div Cols
           o == PasteOrigin(x, y, T)
       IN  Paste(StitchLoop(bg, g, n - 1), g[<<y, x>>], o[1], o[2])

\* final := imaging.New(W, H, transparent), then every tile pasted.  Pasting
\* a nil image panics.
Stitch ==
  /\ prog = "zerocopy" /\ mpc = "stitch"
  /\ IF \E c \in Grid : tiles[c] = NilImage
       THEN mpc' = "panic" /\ UNCHANGED final
       ELSE /\ final' = StitchLoop(NewImage(W, H), tiles, Rows * Cols)
            /\ mpc' = "save"
  /\ UNCHANGED <<histVars, splitVars, descVars, cfgVars, diskVars, img, fatal, saved, vm, released, wk,
                 disp, cnt, res, tiles>>

MoreImagesNever == FALSE

\* for _, file := range inputs: another input file follows.
MoreImages == img < nImages

\* checkErr(imaging.Save(final, outPath)), then the next image, or the end
\* of main's loop.
Save ==
  /\ prog = "zerocopy" /\ mpc = "save"
  /\ \E ok \in BOOLEAN :
       IF ok
         THEN /\ saved' = Append(saved, final)
              /\ IF MoreImages
                   THEN img' = img + 1 /\ mpc' = "open"
                   ELSE img' = img /\ mpc' = "release"
              /\ UNCHANGED fatal
         ELSE /\ mpc' = "fatal"
              /\ fatal' = [NoFatal EXCEPT !.kind = "err", !.err = "save"]
              /\ UNCHANGED <<saved, img>>
  /\ UNCHANGED <<histVars, splitVars, descVars, cfgVars, diskVars, final, vm, released, wk, disp, cnt, res,
                 tiles>>

\* main's deferred function runs: main returned, or panicked after the pool
\* was created.
Deferred == mpc \in {"release", "panic"}

\* The deferred function: vm.Release() for each slot, in the order of vms.
Release ==
  /\ prog = "zerocopy" /\ Deferred
  /\ Len(released) < N
  /\ vm' = [vm EXCEPT ![Len(released)].st = "released"]
  /\ released' = Append(released, Len(released))
  /\ UNCHANGED <<histVars, splitVars, descVars, cfgVars, diskVars, mpc, img, fatal, final, saved, wk, disp,
                 cnt, res, tiles>>

\* The deferred function is over: main returns, or the panic ends the
\* process with status 2.
MainReturn ==
  /\ prog = "zerocopy" /\ Deferred
  /\ ~(Len(released) < N)
  /\ mpc' = IF mpc = "release" THEN "done" ELSE "exit2"
  /\ UNCHANGED <<histVars, splitVars, descVars, cfgVars, diskVars, img, fatal, final, saved, vm, released,
                 wk, disp, cnt, res, tiles>>

ZcNext ==
  \/ ZcStart
  \/ NewVM
  \/ PoolReady
  \/ OpenImage
  \/ \E k \in 1..nImages, i \in Slots : DispatchSend(k, i)
  \/ \E k \in 1..nImages : DispatchClose(k)
  \/ \E k \in 1..nImages, i \in Slots : WorkerExit(k, i)
  \/ \E k \in 1..nImages, i \in Slots : RunTileEnd(k, i)
  \/ \E i \in Slots : CollectRecv(i)
  \/ CollectCheck
  \/ CollectDone
  \/ Stitch
  \/ Save
  \/ Release
  \/ MainReturn

(***************************************************************************)
(* The disk-staged program with bounded concurrency.                       *)
(***************************************************************************)
\* The variables of the zero-copy program while the disk-staged one runs.
ZcIdle ==
  /\ vm = <<>>
  /\ released = <<>>
  /\ wk = <<>>
  /\ disp = <<>>
  /\ cnt = 0
  /\ res = NoResult
  /\ tiles = <<>>
  /\ taken = <<>>
  /\ published = <<>>
  /\ failedImgs = {}
  /\ failures = {}
  /\ reordered = {}

\* The disk-staged programs: the bounded one and the first one.
DiskProgs == {"disk", "naive"}

\* The coordinates <<x, y>> in the names part_x_y.png of the tile files.
TileNames == (0..(Cols - 1)) \X (0..(Rows - 1))

DiskInit ==
  /\ SplitIdle
  /\ DescIdle
  /\ prog = "disk"
  /\ \E c \in Configs :
       /\ nImages = c[1]
       /\ W = c[2][1] /\ H = c[2][2] /\ T = c[2][3]
       /\ N = c[3]
  /\ filt \in Filters
  /\ wasm = "filter"
  /\ mpc = "start"
  /\ img = 0
  /\ fatal = NoFatal
  /\ final = NilImage
  /\ saved = <<>>
  /\ ZcIdle
  /\ DiskIdle

\* const tileSize = 256
NaiveTileSize == 256

\* The images the first disk-staged program is run on, <<W, H>>: one tile,
\* two tiles in a row with a clipped last column, two tiles in a column,
\* three tiles in a row.
NaiveShapes == {<<1, 1>>, <<257, 1>>, <<1, 257>>, <<513, 1>>}

\* The first disk-staged program: one input file, the tile size of the
\* code, no worker count.
NaiveInit ==
  /\ SplitIdle
  /\ DescIdle
  /\ prog = "naive"
  /\ nImages = 1
  /\ \E c \in NaiveShapes : W = c[1] /\ H = c[2]
  /\ T = NaiveTileSize
  /\ N = 0
  /\ filt \in Filters
  /\ wasm = "filter"
  /\ mpc = "start"
  /\ img = 0
  /\ fatal = NoFatal
  /\ final = NilImage
  /\ saved = <<>>
  /\ ZcIdle
  /\ DiskIdle

\* How the preparation of the directories ends: "ok", or the step for which
\* the process is ended.  Only the bounded program walks an input directory.
DiskStartOutcomes ==
  IF prog = "disk" THEN {"ok", "RemoveAll", "MkdirAll", "Walk"}
                   ELSE {"ok", "RemoveAll", "MkdirAll"}

\* main, up to the loop over the input files: the directories removed and
\* made, the input directory walked; "No PNG files found" and return when
\* there is none.
DiskStart ==
  /\ prog \in DiskProgs /\ mpc = "start"
  /\ \E outcome \in DiskStartOutcomes :
       IF outcome # "ok"
         THEN /\ mpc' = "fatal" /\ img' = img
              /\ fatal' = [NoFatal EXCEPT !.kind = "err", !.err = outcome]
       ELSE IF nImages = 0
         THEN mpc' = "done" /\ img' = img /\ UNCHANGED fatal
         ELSE mpc' = "open" /\ img' = 1 /\ UNCHANGED fatal
  /\ UNCHANGED <<splitVars, descVars, cfgVars, zcOnlyVars, diskVars, final, saved>>

\* The file part_x_y.png: the tile cropped from the source, encoded.
TileFile(src, x, y) == PngEncode(Crop(src, TileRectDisk(W, H, T, x, y))).bytes

\* The names of the first n tiles of the split loop: y outside, x inside.
SplitPrefix(n) == {c \in TileNames : c[2] * Cols + c[1] < n}

\* How the body of main's loop ends before its split loop: "ok", or the
\* step for which checkErr ends the process.  Only the bounded program
\* computes and makes the directories of an input file.
DiskOpenOutcomes ==
  IF prog = "disk" THEN {"ok", "Rel", "MkdirAll", "open"} ELSE {"ok", "open"}

\* The directories of the input file, imaging.Open of the input, then the
\* split loop: every tile cropped and saved, one file per iteration;
\* checkErr ends the process when a directory cannot be made, the input
\* cannot be opened or a tile cannot be saved.  The tiles saved before the
\* one that fails stay on disk.
DiskSplit ==
  /\ prog \in DiskProgs /\ mpc = "open"
  /\ \E outcome \in DiskOpenOutcomes, n \in 0..(Rows * Cols) :
       IF outcome = "ok" /\ n = Rows * Cols
         THEN /\ tileFiles' = [c \in TileNames |->
                                 TileFile(SrcImage(img, W, H), c[1], c[2])]
              /\ mpc' = "glob"
              /\ UNCHANGED fatal
       ELSE IF outcome = "ok"
         THEN /\ tileFiles' = [c \in SplitPrefix(n) |->
                                 TileFile(SrcImage(img, W, H), c[1], c[2])]
              /\ mpc' = "fatal"
              /\ fatal' = [NoFatal EXCEPT !.kind = "err", !.err = "save tile"]
         ELSE /\ n = 0
              /\ tileFiles' = <<>>
              /\ mpc' = "fatal"
              /\ fatal' = [NoFatal EXCEPT !.kind = "err", !.err = outcome]
  /\ final' = NilImage
  /\ outFiles' = <<>>
  /\ gor' = <<>>
  /\ UNCHANGED <<splitVars, descVars, cfgVars, zcOnlyVars, img, saved, sem, wg>>

\* files = Glob(tiles directory), sem = make(chan struct{}, maxWorkers), and
\* for every file wg.Add(1) and a goroutine, which waits for a place in sem
\* (bounded program) or calls runWasmFilter at once (first program).
\* checkErr ends the process when Glob fails.
DiskSpawn ==
  /\ prog \in DiskProgs /\ mpc = "glob"
  /\ \E ok \in BOOLEAN :
       IF ok
         THEN /\ gor' = [c \in DOMAIN tileFiles |->
                          IF prog = "disk" THEN "acquire" ELSE "filter"]
              /\ wg' = Cardinality(DOMAIN tileFiles)
              /\ sem' = 0
              /\ mpc' = "wait"
              /\ UNCHANGED fatal
         ELSE /\ mpc' = "fatal"
              /\ fatal' = [NoFatal EXCEPT !.kind = "err", !.err = "glob"]
              /\ UNCHANGED <<gor, wg, sem>>
  /\ UNCHANGED <<splitVars, descVars, cfgVars, zcOnlyVars, img, final, saved,
                 tileFiles, outFiles>>

SemCapLoose == N + 1

\* cap(sem): make(chan struct{}, maxWorkers).
SemCap == N

\* sem <- struct{}{}: the goroutine of a tile takes a place in the channel,
\* and blocks while the channel is full.
DiskAcquire(c) ==
  /\ prog = "disk" /\ Running
  /\ c \in DOMAIN gor
  /\ gor[c] = "acquire"
  /\ sem < SemCap
  /\ sem' = sem + 1
  /\ gor' = [gor EXCEPT ![c] = "filter"]
  /\ UNCHANGED <<splitVars, descVars, cfgVars, zcOnlyVars, mpc, img, fatal, final, saved,
                 tileFiles, outFiles, wg>>

\* What the filter process writes to its standard output for a tile file.
FilterProcess(f, bytes) ==
  LET d == PngDecode(bytes)
  IN  IF d.err THEN <<>> ELSE PngEncode(ApplyFilter(f, d.img)).bytes

\* How runWasmFilter begins: "ok", the input cannot be opened (os.Open), or
\* the output cannot be created (os.Create).
FilterOpenOutcomes == {"ok", "open", "create"}

\* Where the goroutine of a tile is when runWasmFilter has returned: at the
\* deferred "<-sem" in the bounded program, at the deferred wg.Done() in the
\* first one.
AfterFilter == IF prog = "disk" THEN "release" ELSE "signal"

\* os.Create(outPath): the output file exists and is empty.
FileCreated(files, c) ==
  [d \in DOMAIN files \cup {c} |-> IF d = c THEN <<>> ELSE files[d]]

\* runWasmFilter(inPath, outPath), up to cmd.Run: the input is opened and the
\* output created.  A failure is logged and runWasmFilter returns, the
\* output file absent.
RunWasmFilterOpen(c) ==
  /\ prog \in DiskProgs /\ Running
  /\ c \in DOMAIN gor
  /\ gor[c] = "filter"
  /\ \E outcome \in FilterOpenOutcomes :
       IF outcome = "ok"
         THEN /\ outFiles' = FileCreated(outFiles, c)
              /\ gor' = [gor EXCEPT ![c] = "run"]
         ELSE /\ gor' = [gor EXCEPT ![c] = AfterFilter]
              /\ UNCHANGED outFiles
  /\ UNCHANGED <<splitVars, descVars, cfgVars, zcOnlyVars, mpc, img, fatal, final, saved,
                 tileFiles, sem, wg>>

\* What the output file holds after one more write of the process whose
\* whole output is out: a part of it, then all of it.
FilterWritten(out, written) ==
  IF written = <<>> /\ Len(out) > 1 THEN SubSeq(out, 1, Len(out) - 1) ELSE out

\* The filter process, which cmd.Run waits for, writes to its standard
\* output, the output file.
RunWasmFilterWrite(c) ==
  /\ prog \in DiskProgs /\ Running
  /\ c \in DOMAIN gor
  /\ gor[c] = "run"
  /\ outFiles[c] # FilterProcess(filt, tileFiles[c])
  /\ outFiles' = [outFiles EXCEPT
                    ![c] = FilterWritten(FilterProcess(filt, tileFiles[c]), outFiles[c])]
  /\ UNCHANGED <<splitVars, descVars, cfgVars, zcOnlyVars, mpc, img, fatal, final, saved,
                 tileFiles, gor, sem, wg>>

\* cmd.Run returns in the goroutine of a tile of the bounded program, the
\* process having ended after it wrote nothing, a part of its output or all
\* of it; an error is logged, and runWasmFilter returns.
DiskFilterEnd(c) ==
  /\ prog = "disk" /\ Running
  /\ c \in DOMAIN gor
  /\ gor[c] = "run"
  /\ gor' = [gor EXCEPT ![c] = AfterFilter]
  /\ UNCHANGED <<splitVars, descVars, cfgVars, zcOnlyVars, mpc, img, fatal, final, saved,
                 tileFiles, outFiles, sem, wg>>

\* The deferred function, first statement: <-sem gives the place back.
DiskRelease(c) ==
  /\ prog = "disk" /\ Running
  /\ c \in DOMAIN gor
  /\ gor[c] = "release"
  /\ sem' = sem - 1
  /\ gor' = [gor EXCEPT ![c] = "signal"]
  /\ UNCHANGED <<splitVars, descVars, cfgVars, zcOnlyVars, mpc, img, fatal, final, saved,
                 tileFiles, outFiles, wg>>

\* wg.Done(), the second statement of the deferred function (the only one in
\* the first program), and the goroutine ends.
DiskDone(c) ==
  /\ prog \in DiskProgs /\ Running
  /\ c \in DOMAIN gor
  /\ gor[c] = "signal"
  /\ wg' = wg - 1
  /\ gor' = [gor EXCEPT ![c] = "done"]
  /\ UNCHANGED <<splitVars, descVars, cfgVars, zcOnlyVars, mpc, img, fatal, final, saved,
                 tileFiles, outFiles, sem>>

\* wg.Wait() returns when the counter is zero.
WaitOver == wg = 0

\* cmd.Run and runWasmFilter return in the goroutine of a tile of the first
\* program.
NaiveFilterEnd(c) ==
  /\ prog = "naive" /\ Running
  /\ c \in DOMAIN gor
  /\ gor[c] = "run"
  /\ gor' = [gor EXCEPT ![c] = AfterFilter]
  /\ UNCHANGED <<splitVars, descVars, cfgVars, zcOnlyVars, mpc, img, fatal, final, saved,
                 tileFiles, outFiles, sem, wg>>

DiskWait ==
  /\ prog \in DiskProgs /\ mpc = "wait"
  /\ WaitOver
  /\ mpc' = "stitch"
  /\ UNCHANGED <<splitVars, descVars, cfgVars, zcOnlyVars, diskVars, img, fatal, final, saved>>

\* imaging.Open of a processed tile.
OpenTile(files, c) ==
  IF c \in DOMAIN files THEN PngDecode(files[c])
  ELSE [err |-> TRUE, img |-> NilImage]

\* The cells of the grid, in the order of the stitch loop, whose processed
\* tile cannot be opened.
Unreadable(files) ==
  {n \in 1..(Rows * Cols) :
     OpenTile(files, <<(n - 1) % Cols, (n - 1) \div Cols>>).err}

\* The stitch loop: every processed tile opened and pasted; checkErr ends
\* the process at the first tile that cannot be opened.
DiskStitch ==
  /\ prog \in DiskProgs /\ mpc = "stitch"
  /\ LET bad == Unreadable(outFiles)
     IN  IF bad # {}
           THEN LET n == CHOOSE m \in bad : \A o \in bad : m <= o
                IN  /\ mpc' = "fatal"
                    /\ fatal' = [kind |-> "err", x |-> (n - 1) % Cols,
                                 y |-> (n - 1) \div Cols, err |-> "open tile"]
                    /\ UNCHANGED final
           ELSE /\ final' = StitchLoop(NewImage(W, H),
                                       [g \in Grid |->
                                          OpenTile(outFiles, <<g[2], g[1]>>).img],
                                       Rows * Cols)
                /\ mpc' = "save"
                /\ UNCHANGED fatal
  /\ UNCHANGED <<splitVars, descVars, cfgVars, zcOnlyVars, diskVars, img, saved>>

\* checkErr(imaging.Save(final, ...)), then the next input file, or "All
\* input files processed" and the end of main.
DiskSave ==
  /\ prog \in DiskProgs /\ mpc = "save"
  /\ \E ok \in BOOLEAN :
       IF ok
         THEN /\ saved' = Append(saved, final)
              /\ IF img < nImages
                   THEN img' = img + 1 /\ mpc' = "open"
                   ELSE img' = img /\ mpc' = "done"
              /\ UNCHANGED fatal
         ELSE /\ mpc' = "fatal"
              /\ fatal' = [NoFatal EXCEPT !.kind = "err", !.err = "save"]
              /\ UNCHANGED <<saved, img>>
  /\ UNCHANGED <<splitVars, descVars, cfgVars, zcOnlyVars, diskVars, final>>

DiskNext ==
  \/ DiskStart
  \/ DiskSplit
  \/ DiskSpawn
  \/ \E c \in TileNames : DiskAcquire(c)
  \/ \E c \in TileNames : RunWasmFilterOpen(c)
  \/ \E c \in TileNames : RunWasmFilterWrite(c)
  \/ \E c \in TileNames : DiskFilterEnd(c)
  \/ \E c \in TileNames : DiskRelease(c)
  \/ \E c \in TileNames : DiskDone(c)
  \/ \E c \in TileNames : NaiveFilterEnd(c)
  \/ DiskWait
  \/ DiskStitch
  \/ DiskSave

(***************************************************************************)
(* The zero-copy program on small runs with every fault: a guest that      *)
(* misbehaves in any call, a binary that cannot be loaded or lacks an      *)
(* export, a tile size or a number of workers that is not positive.        *)
(***************************************************************************)
FaultShapes == {<<1, 1, 1>>, <<2, 1, 1>>}

\* Tile sizes and numbers of workers that are not positive, with images on
\* which the grid has one tile, no tile, or a negative number of rows.
BadShapes == {<<1, 1, 0>>, <<1, 1, -1>>, <<2, 2, -1>>, <<2, 3, -1>>}

\* The runs explored, <<nImages, <<W, H, T>>, N, binary>>.
FaultRuns ==
  {<<1, sh, 1, "any">> : sh \in FaultShapes}
    \cup {r \in (1..FaultMaxImages) \X FaultShapes \X (1..FaultMaxWorkers)
                    \X (WasmKinds \ {"any", "sound"}) :
              r[1] * r[3] <= MaxWorkerGoroutines}
    \cup {<<1, sh, w, "filter">> : sh \in BadShapes, w \in 1..FaultMaxWorkers}
    \cup {<<1, sh, w, "filter">> : sh \in FaultShapes, w \in {-1, 0}}

FaultInit == ZcInitWith(FaultRuns)

SpecFaults == FaultInit /\ [][ZcNext]_vars

(***************************************************************************)
(* The zero-copy program under fair scheduling, on one image whose tiles   *)
(* all succeed in the guest.                                               *)
(***************************************************************************)
LiveMaxWorkers == 2
LiveMaxTiles == 2

\* One image of t tiles in a row, w workers, with fewer, as many and more
\* tiles than workers.
LiveRuns ==
  {<<1, <<t, 1, 1>>, w, "sound">> : t \in 1..LiveMaxTiles, w \in 1..LiveMaxWorkers}

LiveInit == ZcInitWith(LiveRuns)

\* The steps of main, of the dispatchers and of the workers at the two
\* channels.
ChannelAndMainSteps ==
  \/ ZcStart
  \/ NewVM
  \/ PoolReady
  \/ OpenImage
  \/ \E k \in 1..nImages, i \in Slots : DispatchSend(k, i)
  \/ \E k \in 1..nImages : DispatchClose(k)
  \/ \E k \in 1..nImages, i \in Slots : WorkerExit(k, i)
  \/ \E i \in Slots : CollectRecv(i)
  \/ CollectCheck
  \/ CollectDone
  \/ Save
  \/ Release
  \/ MainReturn

\* A worker is inside runTile: the call can return.
InRunTile ==
  prog = "zerocopy" /\ Running /\ \E w \in DOMAIN wk : wk[w].pc = "run"

RunTileReturns == \E k \in 1..nImages, i \in Slots : RunTileEnd(k, i)

\* main is at the stitch loop: the loop can run.
InStitch == prog = "zerocopy" /\ mpc = "stitch"

\* The scheduler runs a goroutine that can take a step: a step that stays
\* possible is taken.  For the return of runTile and for the stitch loop
\* the condition under which the step is possible is written out.
Fairness ==
  /\ WF_vars(ChannelAndMainSteps)
  /\ []<>(~InRunTile) \/ []<><<RunTileReturns>>_vars
  /\ []<>(~InStitch) \/ []<><<Stitch>>_vars

SpecLive == LiveInit /\ [][ZcNext]_vars /\ Fairness

(***************************************************************************)
(* The decoding of the output descriptor in runTile, on its own: the eight *)
(* bytes are any the guest may have written.  A uint of the host (64 bits) *)
(* is written as its four 16-bit limbs, the most significant first.        *)
(***************************************************************************)
\* The values a byte of the descriptor takes.
ByteSamples == {0, 1, 128, 255}

\* uint(v) for an int32 v: the conversion extends the sign to 64 bits.
UintOfInt32(v) ==
  IF v >= 0 THEN <<0, 0, v \div 65536, v % 65536>>
  ELSE <<65535, 65535, ((v - (v % 65536)) \div 65536) + 65536, v % 65536>>

DescInit ==
  /\ dbytes \in [1..8 -> ByteSamples]
  /\ dpc = "read"
  /\ doff = <<>>
  /\ dlen = <<>>
  /\ SplitIdle
  /\ PipelineIdle

\* outPtr and outLen are put together from paramBytes as int32 and
\* converted with uint(...) for mem.GetData.
DescDecode ==
  /\ dpc = "read"
  /\ doff' = UintOfInt32(HostLE32(dbytes, 0))
  /\ dlen' = UintOfInt32(HostLE32(dbytes, 4))
  /\ dpc' = "decoded"
  /\ UNCHANGED <<dbytes, splitVars, cfgVars, zcVars, histVars, diskVars>>

DescNext == DescDecode

SpecDescriptor == DescInit /\ [][DescNext]_vars

Init == ZcInit \/ DiskInit \/ NaiveInit

Next == ZcNext \/ DiskNext

Spec == Init /\ [][Next]_vars

(***************************************************************************)
(* Claims about the splitter (checked under SpecSplit).                    *)
(***************************************************************************)
SplitTiles == {srects[i].rect : i \in 1..Len(srects)}

InRect(px, py, r) == r.x0 <= px /\ px < r.x1 /\ r.y0 <= py /\ py < r.y1

RectArea(r) == IF RectEmpty(r) THEN 0 ELSE RectDx(r) * RectDy(r)

RECURSIVE AreaSum(_, _)
AreaSum(rs, i) == IF i = 0 THEN 0 ELSE RectArea(rs[i].rect) + AreaSum(rs, i - 1)

\* ceil(a / b) for a >= 0, b > 0, defined without the program's formula.
CeilDiv(a, b) == CHOOSE k \in 0..a : k * b >= a /\ (k - 1) * b < a

\* How many emitted tiles hold pixel (px, py).
TilesHolding(px, py) ==
  Cardinality({i \in 1..Len(srects) : InRect(px, py, srects[i].rect)})

\* C1: when the splitter has finished an image of W >= 1, H >= 1 with T > 0,
\* tile (c, r) is [c*T, min((c+1)*T, W)) x [r*T, min((r+1)*T, H)), the tiles
\* lie inside the image, no two of them overlap, their areas add up to W*H,
\* and (for the enumerated images) every pixel is in exactly one tile.
C1_TilesCoverExactlyOnce ==
  (spc = "done" /\ sW >= 1 /\ sH >= 1 /\ sT > 0) =>
    /\ \A i \in 1..Len(srects) :
         LET t == srects[i]
         IN  /\ t.rect = [x0 |-> t.x * sT, y0 |-> t.y * sT,
                          x1 |-> Min2((t.x + 1) * sT, sW),
                          y1 |-> Min2((t.y + 1) * sT, sH)]
             /\ Intersect(t.rect, Bounds(sW, sH)) = t.rect
    /\ \A i, j \in 1..Len(srects) :
         i # j => RectEmpty(Intersect(srects[i].rect, srects[j].rect))
    /\ AreaSum(srects, Len(srects)) = sW * sH
    /\ {<<srects[i].x, srects[i].y>> : i \in 1..Len(srects)}
         = (0..(CeilDiv(sW, sT) - 1)) \X (0..(CeilDiv(sH, sT) - 1))
    /\ (sW <= SplitMaxW /\ sH <= SplitMaxH) =>
         \A px \in 0..(sW - 1), py \in 0..(sH - 1) : TilesHolding(px, py) = 1

\* Witness of C1: a finished split of a grid with several columns and rows
\* whose last column and last row are clipped.
C1_Witness ==
  /\ spc = "done"
  /\ sW % sT # 0 /\ sH % sT # 0
  /\ sW > sT /\ sH > sT
  /\ Len(srects) >= 4
  /\ sW <= SplitMaxW

\* C2: the splitter emits exactly ceil(W/T) * ceil(H/T) tiles, all non-empty;
\* a tile is narrower (shorter) than T only in the last column (row), where
\* it is W - (cols-1)*T wide (H - (rows-1)*T tall); an image smaller than T
\* gives one tile equal to the image, a 1x1 image one 1x1 tile, divisible
\* dimensions no trailing tile, and 768x512 with T = 300 a 3x2 grid with a
\* last column of 168 and a last row of 212.
C2_TileCountAndSizes ==
  (spc = "done" /\ sW >= 1 /\ sH >= 1 /\ sT > 0) =>
    LET cols == CeilDiv(sW, sT)
        rows == CeilDiv(sH, sT)
    IN  /\ Len(srects) = cols * rows
        /\ Cardinality(SplitTiles) = cols * rows
        /\ \A i \in 1..Len(srects) :
             LET t == srects[i]
                 w == RectDx(t.rect)
                 h == RectDy(t.rect)
             IN  /\ ~RectEmpty(t.rect)
                 /\ w >= 1 /\ h >= 1
                 /\ IF t.x = cols - 1 THEN w = sW - (cols - 1) * sT ELSE w = sT
                 /\ IF t.y = rows - 1 THEN h = sH - (rows - 1) * sT ELSE h = sT
                 /\ w <= sT /\ h <= sT
        /\ (sW < sT /\ sH < sT) => srects = <<[x |-> 0, y |-> 0, rect |-> Bounds(sW, sH)]>>
        /\ (sW = 1 /\ sH = 1) =>
             srects = <<[x |-> 0, y |-> 0, rect |-> [x0 |-> 0, y0 |-> 0, x1 |-> 1, y1 |-> 1]]>>
        /\ (sW % sT = 0 /\ sH % sT = 0) =>
             /\ Len(srects) = (sW \div sT) * (sH \div sT)
             /\ \A i \in 1..Len(srects) :
                  RectDx(srects[i].rect) = sT /\ RectDy(srects[i].rect) = sT
        /\ (sW = 768 /\ sH = 512 /\ sT = 300) =>
             /\ Len(srects) = 6
             /\ {srects[i].x : i \in 1..6} = 0..2
             /\ {srects[i].y : i \in 1..6} = 0..1
             /\ \A i \in 1..6 :
                  /\ srects[i].x = 2 => RectDx(srects[i].rect) = 168
                  /\ srects[i].y = 1 => RectDy(srects[i].rect) = 212
                  /\ srects[i].x < 2 => RectDx(srects[i].rect) = 300
                  /\ srects[i].y < 1 => RectDy(srects[i].rect) = 300

\* Witness of C2: the 768x512 image has been split with T = 300 into its six
\* tiles, the last of them 168 wide and 212 tall.
C2_Witness ==
  /\ spc = "done"
  /\ sW = 768 /\ sH = 512 /\ sT = 300
  /\ Len(srects) = 6
  /\ srects[6].rect = [x0 |-> 600, y0 |-> 300, x1 |-> 768, y1 |-> 512]

(***************************************************************************)
(* Claims about the pipelines (checked under Spec).                        *)
(***************************************************************************)
\* The images of the run whose final image was written.
SavedImages == 1..Len(saved)

\* The image the pipeline is meant to produce for image k, pixel by pixel:
\* the pixel at p lies in tile (p.x / T, p.y / T), and is the pixel of the
\* filtered tile at p's offset from the tile's origin.
ExpectedFinal(k) ==
  [w |-> W, h |-> H,
   pix |-> [p \in Pixels(W, H) |->
     LET x    == p[1] \div T
         y    == p[2] \div T
         rect == [x0 |-> x * T, y0 |-> y * T,
                  x1 |-> Min2((x + 1) * T, W), y1 |-> Min2((y + 1) * T, H)]
         out  == ApplyFilter(filt, Crop(SrcImage(k, W, H), rect))
     IN  out.pix[<<p[1] - x * T, p[2] - y * T>>]]]

\* C3: with the identity filter, N >= 1 and T > 0, in the zero-copy and in
\* the disk-staged programs (the first of which has no N and a fixed T),
\* the image stitched from the processed tiles, and every final image
\* written, is the source image.
C3_RoundTripIdentity ==
  (/\ filt = "identity"
   /\ \/ prog \in {"zerocopy", "disk"} /\ N >= 1 /\ T > 0
      \/ prog = "naive") =>
    /\ \A k \in SavedImages : saved[k] = SrcImage(k, W, H)
    /\ mpc = "save" => final = SrcImage(img, W, H)

\* Witness of C3: an image of 2x2 tiles with clipped last column and row was
\* processed by two workers with the identity filter and written.
C3_Witness ==
  /\ prog = "zerocopy" /\ filt = "identity"
  /\ N = 2 /\ Rows = 2 /\ Cols = 2 /\ W % T # 0 /\ H % T # 0
  /\ Len(saved) = 1
  /\ saved[1] = SrcImage(1, W, H)

\* C4: the final image is a function of the image, the tile size and the
\* filter alone: whatever the interleaving of the workers and the order in
\* which results arrive, every final image written is the expected one.
C4_FinalIndependentOfOrder ==
  (prog = "zerocopy" /\ T > 0) =>
    /\ \A k \in SavedImages : saved[k] = ExpectedFinal(k)
    /\ mpc = "save" => final = ExpectedFinal(img)

\* Witness of C4: a final image was written although a result had arrived
\* before the result of an earlier tile, with more than one worker.
C4_Witness ==
  /\ prog = "zerocopy" /\ filt = "gray"
  /\ N >= 2
  /\ Len(saved) >= 1
  /\ 1 \in reordered
  /\ saved[1] = ExpectedFinal(1)

\* The grid cells of image k, as keys of the histories.
TaskKeys(k) == {<<k, c[1], c[2]>> : c \in Grid}

Count(f, c) == IF c \in DOMAIN f THEN f[c] ELSE 0

\* The image k was collected completely.
Collected(k) ==
  \/ k <= Len(saved)
  \/ k < img
  \/ (k = img /\ mpc \in {"stitch", "save", "release", "done"})

\* C5: no task is received twice and no two results carry the same
\* coordinates: every task received is a tile of the grid received once, by
\* one worker; every result carries the coordinates of the task it was
\* computed from, and at most one result per tile is published; when the
\* results of an image have been collected, every tile of its grid was
\* received exactly once and exactly one result was published for it.
C5_TaskAndResultExactlyOnce ==
  prog = "zerocopy" =>
    /\ \A c \in DOMAIN taken :
         taken[c] = 1 /\ c \in TaskKeys(c[1])
    /\ \A c \in DOMAIN published :
         published[c] = 1 /\ Count(taken, c) = 1
    /\ \A w \in DOMAIN wk :
         /\ wk[w].pc = "run" =>
              /\ Count(taken, <<w[1], wk[w].task.y, wk[w].task.x>>) = 1
              /\ Count(published, <<w[1], wk[w].task.y, wk[w].task.x>>) = 0
         /\ wk[w].pc = "send" =>
              /\ Count(taken, <<w[1], wk[w].res.y, wk[w].res.x>>) = 1
              /\ Count(published, <<w[1], wk[w].res.y, wk[w].res.x>>) = 0
    /\ \A w, v \in DOMAIN wk :
         (w # v /\ w[1] = v[1] /\ wk[w].pc \in {"run", "send"}
                /\ wk[v].pc \in {"run", "send"}) =>
           <<wk[w].task.x, wk[w].task.y, wk[w].res.x, wk[w].res.y>>
             # <<wk[v].task.x, wk[v].task.y, wk[v].res.x, wk[v].res.y>>
    /\ \A k \in 1..nImages :
         Collected(k) =>
           \A c \in TaskKeys(k) : Count(taken, c) = 1 /\ Count(published, c) = 1

\* Witness of C5: the four tiles of a grid were processed by two workers and
\* all their results collected.
C5_Witness ==
  /\ prog = "zerocopy" /\ N = 2 /\ Rows * Cols = 4
  /\ mpc = "stitch"
  /\ \A c \in TaskKeys(1) : Count(taken, c) = 1 /\ Count(published, c) = 1

\* The workers, of any image, that are inside runTile on slot s.
InvokingOn(s) == {w \in DOMAIN wk : wk[w].pc = "run" /\ SlotOf(w[2]) = s}

\* C6: no two runTile calls are in progress on the same slot; and once the
\* workers of an image have been launched, no worker of an earlier image is
\* inside runTile or holds a task, and the dispatcher of the earlier image
\* has no task left to hand out.
C6_NoConcurrentInvocationOnSlot ==
  prog = "zerocopy" =>
    /\ \A s \in Slots : Cardinality(InvokingOn(s)) <= 1
    /\ \A w, v \in DOMAIN wk :
         (w[1] < v[1] /\ wk[v].pc # "none") =>
           /\ wk[w].pc \in {"recv", "exit"}
           /\ ~DispHasTask(disp[w[1]])

\* Witness of C6: a worker of the second image is inside runTile on a slot
\* while the worker of the first image that used this slot has not returned
\* from its loop yet.
C6_Witness ==
  /\ prog = "zerocopy"
  /\ \E i \in Slots :
       /\ <<2, i>> \in DOMAIN wk
       /\ wk[<<2, i>>].pc = "run"
       /\ wk[<<1, i>>].pc = "recv"

\* The tiles whose filter is executing: the workers inside runTile, the
\* goroutines inside runWasmFilter.
InFlight ==
  IF prog = "zerocopy"
    THEN {w \in DOMAIN wk : wk[w].pc = "run"}
    ELSE {c \in DOMAIN gor : gor[c] \in {"filter", "run"}}

\* The goroutines of the bounded disk-staged program that hold a token of
\* the semaphore: from "sem <- struct{}{}" to "<-sem".
TokenHolders == {c \in DOMAIN gor : gor[c] \in {"filter", "run", "release"}}

\* C7: at every moment of a run, of the zero-copy program or of the bounded
\* disk-staged one, the number of tiles whose filter is executing is at most
\* the configured number of workers N; in the disk-staged program a filter
\* runs only while its goroutine holds a token of the semaphore, one of at
\* most N.
C7_InFlightAtMostN ==
  prog \in {"zerocopy", "disk"} =>
    /\ Cardinality(InFlight) <= N
    /\ prog = "disk" => /\ InFlight \subseteq TokenHolders
                        /\ sem = Cardinality(TokenHolders)
                        /\ sem <= N

\* Witness of C7: four tiles and two workers in the disk-staged program;
\* two filters are executing and a third goroutine waits for a token, after
\* a fourth gave its token back and has not signalled the WaitGroup yet.
C7_Witness ==
  /\ prog = "disk" /\ N = 2 /\ Rows * Cols = 4
  /\ Cardinality(InFlight) = 2
  /\ \E c \in DOMAIN gor : gor[c] = "acquire"
  /\ \E c \in DOMAIN gor : gor[c] = "signal"

\* C8: when the stitch loop of an image starts, the processing of every
\* tile of the image has finished.  Zero-copy: rows*cols results have been
\* received, every cell of the grid holds an image, and no worker of the
\* image is inside runTile or offers a result.  Disk-staged, both programs:
\* the counter of the WaitGroup is zero and the goroutine of every tile has
\* returned.
C8_StitchAfterAllTiles ==
  mpc = "stitch" =>
    /\ prog = "zerocopy" =>
         /\ cnt = Rows * Cols
         /\ \A c \in Grid : tiles[c] # NilImage
         /\ \A i \in Slots : wk[<<img, i>>].pc \in {"recv", "exit"}
         /\ \A c \in TaskKeys(img) : Count(published, c) = 1
    /\ prog \in DiskProgs =>
         /\ wg = 0
         /\ DOMAIN gor = TileNames
         /\ \A c \in TileNames : gor[c] = "done"

\* Witness of C8: the stitch loop of an image of four tiles is about to
\* start in the zero-copy program with two workers.
C8_Witness ==
  /\ prog = "zerocopy" /\ N = 2 /\ Rows * Cols = 4
  /\ mpc = "stitch"
  /\ cnt = 4

\* C9: once an invocation of a tile of image k has returned an error, no
\* final image of k is stitched or written, no later image is begun, and
\* the run is ended by log.Fatal reporting a tile or is on its way there:
\* main is about to examine a result, or waits in the collect loop for a
\* result that a worker of k is offering.
C9_FailFast ==
  prog = "zerocopy" =>
    \A k \in failedImgs :
      /\ Len(saved) < k
      /\ img = k
      /\ mpc \in {"collect", "check", "fatal"}
      /\ final = NilImage
      /\ mpc = "fatal" => fatal.kind = "tile"
      /\ \/ mpc = "fatal"
         \/ mpc = "check"
         \/ /\ mpc = "collect"
            /\ cnt < Rows * Cols
            /\ \E i \in Slots : wk[<<k, i>>].pc = "send" /\ wk[<<k, i>>].res.err # "nil"

\* Witness of C9: the second of two images failed in a tile; the run was
\* ended by log.Fatal with the first image alone written.
C9_Witness ==
  /\ prog = "zerocopy"
  /\ failedImgs = {2}
  /\ mpc = "fatal" /\ fatal.kind = "tile"
  /\ Len(saved) = 1

\* C10: when a slot starts an invocation, every region handed out by the
\* guest during the earlier invocations on this slot has been passed to
\* dealloc.
C10_NoAllocationOutlivesInvocation ==
  prog = "zerocopy" =>
    \A w \in DOMAIN wk :
      wk[w].pc = "run" => vm[SlotOf(w[2])].owed = {}

\* The slots on which an invocation has returned, with what it returned.
Invoked == {s \in DOMAIN vm : vm[s].last.err # "none"}

\* C11: after every invocation that returned a result, with a guest whose
\* dealloc releases the region it is given, the regions the guest holds
\* allocated on the slot are those it held before the invocation, whatever
\* was allocated before.
C11_NoNetAllocationGrowth ==
  (prog = "zerocopy" /\ wasm = "filter") =>
    \A s \in Invoked :
      vm[s].last.err = "nil" => vm[s].last.live1 = vm[s].last.live0

\* Witness of C11: an invocation returned a result on a slot whose guest
\* held regions an earlier, failed invocation had left allocated.
C11_Witness ==
  /\ prog = "zerocopy" /\ wasm = "filter"
  /\ \E s \in Invoked :
       /\ vm[s].last.err = "nil"
       /\ vm[s].last.live0 # {}
       /\ vm[s].last.live1 = vm[s].last.live0

\* The calls and accesses of a successful invocation, in order, as the
\* trace c records them.
SuccessfulOrder(c) ==
  /\ Len(c) = 9
  /\ c[1][1] = "alloc"
  /\ c[2] = <<"write", c[1][3], c[1][2]>>
  /\ c[3][1] = "alloc" /\ c[3][2] = 8
  /\ c[4][1] = "grayscale"
  /\ <<c[4][2], c[4][3], c[4][4]>> = <<c[1][3], c[1][2], c[3][3]>>
  /\ c[5] = <<"read", c[3][3], 8>>
  /\ c[6][1] = "read"
  /\ c[7] = <<"dealloc", c[1][3], c[1][2]>>
  /\ c[8] = <<"dealloc", c[6][2], c[6][3]>>
  /\ c[9] = <<"dealloc", c[3][3], 8>>

\* C12: in every invocation that returned a result the host called
\* alloc(inputLen), wrote the input at inPtr, called alloc(8), the filter
\* (inPtr, inputLen, outParamsPtr), read the 8 bytes of the descriptor,
\* read outLen bytes at outPtr, and then called dealloc(inPtr, inputLen),
\* dealloc(outPtr, outLen), dealloc(outParamsPtr, 8), in this order.
C12_GuestCallOrder ==
  prog = "zerocopy" =>
    \A s \in Invoked :
      vm[s].last.err = "nil" => SuccessfulOrder(vm[s].last.calls)

\* Witness of C12: an invocation returned a result from a guest that may
\* misbehave in any call.
C12_Witness ==
  /\ prog = "zerocopy" /\ wasm = "any"
  /\ \E s \in Invoked :
       /\ vm[s].last.err = "nil"
       /\ Len(vm[s].last.calls) = 9

\* The step of runTile an error message names.
StageOf(err) ==
  CASE err = "encode"             -> "encode"
    [] err = "alloc input"        -> "allocate"
    [] err = "alloc params"       -> "allocate"
    [] err = "mem input"          -> "write"
    [] err = "grayscale"          -> "invoke"
    [] err = "zero length output" -> "invoke"
    [] err = "mem params"         -> "read"
    [] err = "mem output"         -> "read"
    [] err = "decode"             -> "decode"
    [] OTHER                      -> "unknown"

\* The filter entry point returned the length 0 in the invocation whose
\* trace is c.
FilterReturnedZero(c) ==
  /\ c # <<>>
  /\ c[Len(c)][1] = "grayscale"
  /\ c[Len(c)][5] = 0

\* C13: an invocation in which the filter returns the length 0 returns an
\* error that names the filter call; every error an invocation returns
\* names the step that failed; and when the run is ended for a tile, the
\* report carries the coordinates and the error of a tile whose invocation
\* returned that error.
C13_FailureNamesTileAndStage ==
  prog = "zerocopy" =>
    /\ \A s \in Invoked :
         FilterReturnedZero(vm[s].last.calls) =>
           /\ vm[s].last.err = "zero length output"
           /\ StageOf(vm[s].last.err) = "invoke"
    /\ \A f \in failures : StageOf(f[4]) # "unknown"
    /\ (mpc = "fatal" /\ fatal.kind = "tile") =>
         /\ <<img, fatal.x, fatal.y, fatal.err>> \in failures
         /\ StageOf(fatal.err) # "unknown"

\* Witness of C13: the filter returned the length 0 for the second tile of
\* a row, after the first tile was processed, and the run was ended with a
\* report of tile (1, 0) and this error.
C13_Witness ==
  /\ prog = "zerocopy"
  /\ mpc = "fatal"
  /\ fatal = [kind |-> "tile", x |-> 1, y |-> 0, err |-> "zero length output"]
  /\ failures = {<<1, 1, 0, "zero length output">>}
  /\ \E s \in Invoked : FilterReturnedZero(vm[s].last.calls)

\* The binary is missing or malformed, or lacks a required export.
BadBinary ==
  wasm \in {"missing", "malformed", "noalloc", "nodealloc", "nofilter"}

\* A worker or the dispatcher of some image was started.
Launched ==
  \/ \E w \in DOMAIN wk : wk[w].pc # "none"
  \/ \E k \in DOMAIN disp : disp[k].pc # "none"

\* The errors that end main before the pool is created.
PrepareErrors == ZcStartOutcomes \ {"ok"}

\* C14: every one of the N instances is created before an image is opened
\* and a worker started; and with a binary that is missing, malformed or
\* lacks alloc, dealloc or the filter, the program ends at startup, with the
\* error of newVM unless the directories could not be prepared: no image is
\* opened, no worker started, no task taken.
C14_PoolBeforeDispatch ==
  prog = "zerocopy" =>
    /\ (Launched \/ mpc \in {"open", "collect", "check", "stitch", "save"}) =>
         (N >= 0 /\ Created = N)
    /\ BadBinary =>
         /\ mpc \in {"start", "pool", "fatal"}
         /\ mpc = "fatal" =>
              /\ fatal.kind = "err"
              /\ fatal.err \in {"load", "validate", "instantiate"} \cup PrepareErrors
         /\ ~Launched
         /\ taken = <<>>

\* The tile size or the number of workers is not positive.
BadConfig == T <= 0 \/ N <= 0

\* main waits for a result that no goroutine will ever send: there is no
\* worker.
BlockedForever == mpc = "collect" /\ Slots = {} /\ cnt < CollectBound

\* C15: with a tile size or a number of workers that is not positive the
\* run is rejected at startup with the error InvalidConfig: it does not
\* get past the creation of the pool, starts no worker or dispatcher, hands
\* out no task, does not panic and does not block forever.
C15_InvalidConfigRejected ==
  (prog = "zerocopy" /\ BadConfig) =>
    /\ mpc \in {"start", "pool", "fatal"}
    /\ mpc = "fatal" => fatal.err \in {"InvalidConfig"} \cup PrepareErrors
    /\ mpc \notin {"panic", "exit2"}
    /\ ~BlockedForever
    /\ ~Launched
    /\ taken = <<>>
    /\ saved = <<>>

\* The workers, of any image, bound to slot s.
WorkersOf(s) == {w \in DOMAIN wk : SlotOf(w[2]) = s}

\* C16: when a slot has been released, main is past its loop over the
\* images (it returned from it, every image written and every worker
\* started, or it panicked in it), and no worker bound to the slot is inside
\* runTile, holds a task or a result, or can receive a task: every runTile
\* call on the slot has returned and none will follow.
C16_ReleaseAfterLastInvocation ==
  prog = "zerocopy" =>
    \A s \in Slots :
      vm[s].st = "released" =>
        /\ mpc \in {"release", "done", "panic", "exit2"}
        /\ mpc \in {"release", "done"} =>
             (Len(saved) = nImages /\ \A w \in WorkersOf(s) : wk[w].pc # "none")
        /\ \A w \in WorkersOf(s) :
             /\ wk[w].pc \in {"none", "recv", "exit"}
             /\ wk[w].pc = "recv" =>
                  /\ disp[w[1]].pc \in {"loop", "done"}
                  /\ ~DispHasTask(disp[w[1]])

\* Witness of C16: in a run of two images with two workers the first slot
\* has been released, the second not yet, after each slot had been invoked.
C16_Witness ==
  /\ prog = "zerocopy" /\ N = 2 /\ nImages = 2
  /\ vm[0].st = "released" /\ vm[1].st = "ready"
  /\ \A s \in Slots : vm[s].last.err = "nil"

\* The slots in reverse order of their creation: N-1 first, 0 last.
ReverseCreationOrder == [i \in 1..N |-> N - i]

\* The run is over, the pool having been created: main returned, or the
\* process was ended for a tile.
RunOver ==
  /\ nImages >= 1
  /\ Created = N
  /\ \/ mpc = "done"
     \/ mpc = "fatal" /\ fatal.kind = "tile"

\* C17: when a run is over, completed or ended for a tile, each of the N
\* slots has been released exactly once, slot N-1 first and slot 0 last.
C17_ReleaseOnceInReverseOrder ==
  (prog = "zerocopy" /\ RunOver) => released = ReverseCreationOrder

\* The filter failed for a tile of the image being processed.  Zero-copy:
\* an invocation returned an error.  Disk-staged: runWasmFilter returned
\* and left no processed tile that can be opened.
TileFailed ==
  IF prog = "zerocopy"
    THEN \E f \in failures : f[1] = img
    ELSE \E c \in DOMAIN gor :
           /\ gor[c] \in {"release", "signal", "done"}
           /\ OpenTile(outFiles, c).err

\* C18: the disk-staged programs and the zero-copy program end a run alike.
\* Every final image written is the image expected from the source, the
\* tile size and the filter; once the filter has failed for a tile, no
\* final image of that image is stitched or written; and the run is ended
\* on the failure, without going on to the stitch loop after the remaining
\* tiles have been processed.
C18_StrategiesSubstitutable ==
  (prog \in {"zerocopy", "disk", "naive"} /\ T > 0) =>
    /\ \A k \in SavedImages : saved[k] = ExpectedFinal(k)
    /\ TileFailed =>
         /\ final = NilImage
         /\ Len(saved) < img
         /\ mpc # "stitch"

\* Worker w receives a task in this step and calls runTile with it.
TakesTask(w) ==
  /\ w \in DOMAIN wk /\ w \in DOMAIN wk'
  /\ wk[w].pc = "recv"
  /\ wk'[w].pc = "run"

\* C19: in a zero-copy run, once a worker holds or has sent a failed
\* result, no worker receives a further task from the queue or starts a
\* further guest invocation.
C19_CooperativeShutdown ==
  [][(prog = "zerocopy" /\ failures # {}) =>
       \A k \in 1..nImages, i \in Slots : ~TakesTask(<<k, i>>)]_vars

\* Call j of trace c is an alloc that returned pointer 0.
AllocReturnedNull(c, j) == c[j][1] = "alloc" /\ c[j][3] = 0

\* C20: when alloc returns pointer 0, for the input buffer or for the
\* descriptor, the invocation fails with an allocation error and makes no
\* further access: the host does not write or read guest memory at that
\* pointer and does not call the filter with it.
C20_NullAllocFailsInvocation ==
  \A s \in DOMAIN vm :
    s \in Invoked =>
      \A j \in 1..Len(vm[s].last.calls) :
        AllocReturnedNull(vm[s].last.calls, j) =>
          /\ vm[s].last.err \in {"alloc input", "alloc params"}
          /\ j = Len(vm[s].last.calls)

\* The accesses of the host to guest memory in trace c: the copy of the
\* input, the read of the descriptor, the read of the output.
HostAccesses(c) == {j \in 1..Len(c) : c[j][1] \in {"write", "read"}}

\* The range of n bytes at ptr lies inside a memory of size bytes.
InBounds(ptr, n, size) == ptr >= 0 /\ n >= 0 /\ ptr + n <= size

MemErrors == {"mem input", "mem params", "mem output"}

\* C21: every access of the host to guest memory lies inside the memory.
\* An input buffer or a descriptor that alloc placed across the end of
\* memory ends the invocation with the memory error of that access, before
\* any access; an invocation that ended with a memory error made no access
\* after the failed one, and its result carries no image.
C21_HostAccessInBounds ==
  /\ \A s \in Invoked :
       LET c == vm[s].last.calls
           e == vm[s].last.err
       IN  /\ \A j \in HostAccesses(c) : InBounds(c[j][2], c[j][3], MemSize)
           /\ (Len(c) >= 1 /\ c[1][3] >= 0 /\ ~InBounds(c[1][3], c[1][2], MemSize))
                 => (e = "mem input" /\ Len(c) = 1)
           /\ (Len(c) >= 4 /\ c[3][1] = "alloc" /\ c[3][3] >= 0 /\ c[4][5] > 0
                 /\ ~InBounds(c[3][3], 8, MemSize))
                 => (e = "mem params" /\ Len(c) = 4)
           /\ e = "mem output" => (Len(c) = 5 /\ c[5] = <<"read", c[3][3], 8>>)
  /\ \A w \in DOMAIN wk :
       wk[w].res.err \in MemErrors => wk[w].res.img = NilImage

\* An invocation ended on a descriptor that points outside guest memory.
C21_Witness ==
  /\ wasm = "any"
  /\ \E f \in failures : f[4] = "mem output"

\* The unsigned little-endian 32-bit value of b[o..o+3] (o the 0-based
\* index of the first byte), as the limbs of a 64-bit number.
UnsignedLE32(b, o) == <<0, 0, b[o + 3] + b[o + 4] * 256, b[o + 1] + b[o + 2] * 256>>

\* C22: the offset and the length the host passes to GetData for the
\* result are the unsigned little-endian 32-bit values of bytes 0..3 and
\* 4..7 of the descriptor, whatever the bytes are.
C22_DescriptorUnsignedLE32 ==
  dpc = "decoded" =>
    /\ doff = UnsignedLE32(dbytes, 0)
    /\ dlen = UnsignedLE32(dbytes, 4)

\* In trace c the host went on to read the result bytes: the sixth entry,
\* after the filter call and the read of the descriptor.
ReadsResult(c) == Len(c) >= 6 /\ c[4][1] = "grayscale" /\ c[6][1] = "read"

\* C23: whenever the host reads the result bytes, the length it reads,
\* decoded from the descriptor, is the length the filter returned, and so
\* is the length it passes to dealloc for the result.
C23_OutLenIsReturnedLength ==
  \A s \in Invoked :
    LET c == vm[s].last.calls
    IN  ReadsResult(c) =>
          /\ c[6][3] = c[4][5]
          /\ Len(c) >= 8 => c[8] = <<"dealloc", c[6][2], c[4][5]>>

\* The slot's guest failed to release memory in at least two invocations.
DeallocFailsRepeatedly(s) == vm[s].dfail >= 2

\* C24: an invocation whose dealloc calls fail still returns its result,
\* and a slot whose dealloc calls failed repeatedly runs no further task.
C24_DeallocFailureDegradesSlot ==
  /\ \A s \in Invoked :
       (wasm = "nodealloc" /\ vm[s].last.calls # <<>>
          /\ vm[s].last.calls[Len(vm[s].last.calls)][1] = "dealloc")
         => vm[s].last.err = "nil"
  /\ \A w \in DOMAIN wk :
       DeallocFailsRepeatedly(SlotOf(w[2])) => wk[w].pc # "run"

\* Under fair scheduling, whenever main waits in the collect loop of an
\* image it receives all rows*cols results and leaves the loop, unless an
\* invocation failed, and every run ends: the part of the run that does not
\* depend on a join of the goroutines.
CollectCompletes ==
  /\ (prog = "zerocopy" /\ mpc = "collect")
        ~> ((mpc = "stitch" /\ cnt = Rows * Cols) \/ failures # {})
  /\ <>(mpc = "done" \/ mpc = "fatal")

\* C25: in a run in which every invocation succeeds, the dispatcher of every
\* image has sent its tasks and closed the queue and every worker goroutine
\* has returned by the time main returns and the process ends.
C25_WorkersExitBeforeEnd ==
  (prog = "zerocopy" /\ mpc = "done" /\ failures = {}) =>
    /\ \A k \in DOMAIN disp : disp[k].pc = "done"
    /\ \A w \in DOMAIN wk : wk[w].pc = "exit"

\* The tiles of srects that hold pixel (px, py).
TilesAt(px, py) == {i \in 1..Len(srects) : InRect(px, py, srects[i].rect)}

\* C26: split.Image returns n*n tiles, tile_0 .. tile_(n*n-1) in row-major
\* order, tile (x, y) being [x*(W/n), (x+1)*(W/n)) x [y*(H/n), (y+1)*(H/n)),
\* and every pixel of the image lies in exactly one of them.  A call that
\* ends with an error of the file system or of the decoder is not judged; one
\* that ends because a tile it cut has no pixels is.
C26_ImageTilesCoverOnce ==
  (svariant = "image" /\ (spc = "done" \/ (spc = "error" /\ serr = "size"))) =>
    /\ Len(srects) = sT * sT
    /\ \A i \in 1..Len(srects) :
         /\ srects[i].id = i - 1
         /\ srects[i].id = srects[i].y * sT + srects[i].x
         /\ srects[i].rect =
              [x0 |-> srects[i].x * (sW \div sT), x1 |-> (srects[i].x + 1) * (sW \div sT),
               y0 |-> srects[i].y * (sH \div sT), y1 |-> (srects[i].y + 1) * (sH \div sT)]
    /\ \A px \in 0..(sW - 1), py \in 0..(sH - 1) :
         Cardinality(TilesAt(px, py)) = 1

====
